---- MODULE Spec2Model ----
(***************************************************************************)
(* html-vegalite: the tag-driven HTML parser (HTMLParser.parseHTML), its   *)
(* tag strategies, the process-wide composite (list) state and the         *)
(* SpacingAnalyzer, as a state machine.                                    *)
(*                                                                         *)
(* Strings are sequences of one-character strings, so that the regex       *)
(* split, trim, indexOf and substring of the source are computed and not   *)
(* assumed.  Positions are 1-based; IndexOf returns 0 where JavaScript's   *)
(* indexOf returns -1.                                                     *)
(***************************************************************************)
EXTENDS Integers, Sequences, FiniteSets, TLC

\* ------------------------------------------------------------------------
\* Characters and strings
\* ------------------------------------------------------------------------

UPPER == <<"A","B","C","D","E","F","G","H","I","J","K","L","M",
           "N","O","P","Q","R","S","T","U","V","W","X","Y","Z">>

LOWER == <<"a","b","c","d","e","f","g","h","i","j","k","l","m",
           "n","o","p","q","r","s","t","u","v","w","x","y","z">>

DIGITS == {"0","1","2","3","4","5","6","7","8","9"}

\* [a-zA-Z]
IsLetter(c) == \E k \in 1..Len(UPPER) : c = UPPER[k] \/ c = LOWER[k]

\* [a-zA-Z0-9]
IsAlnum(c) == IsLetter(c) \/ c \in DIGITS

\* \s of the regular expressions (the characters of the model's alphabet)
IsWhitespace(c) == c \in {" ", "\n", "\t"}

\* String.prototype.toLowerCase, one character
LowerChar(c) ==
    IF \E k \in 1..Len(UPPER) : c = UPPER[k]
    THEN LOWER[CHOOSE k \in 1..Len(UPPER) : c = UPPER[k]]
    ELSE c

ToLowerCase(s) == [k \in 1..Len(s) |-> LowerChar(s[k])]

RECURSIVE Concat(_)
\* Array.prototype.join('') of a sequence of strings
Concat(ss) == IF ss = <<>> THEN <<>> ELSE Head(ss) \o Concat(Tail(ss))

RECURSIVE TrimStart(_)
TrimStart(s) ==
    IF s # <<>> /\ IsWhitespace(Head(s)) THEN TrimStart(Tail(s)) ELSE s

RECURSIVE TrimEnd(_)
TrimEnd(s) ==
    IF s # <<>> /\ IsWhitespace(s[Len(s)])
    THEN TrimEnd(SubSeq(s, 1, Len(s) - 1))
    ELSE s

\* String.prototype.trim
Trim(s) == TrimEnd(TrimStart(s))

\* whether needle occurs in hay at position p
OccursAt(hay, needle, p) ==
    /\ p >= 1
    /\ p + Len(needle) - 1 <= Len(hay)
    /\ \A k \in 1..Len(needle) : hay[p + k - 1] = needle[k]

\* String.prototype.indexOf(needle, from): the first position >= from at
\* which needle occurs, 0 when there is none
IndexOf(hay, needle, from) ==
    LET hits == {p \in from..(Len(hay) - Len(needle) + 1) : OccursAt(hay, needle, p)}
    IN  IF hits = {} THEN 0 ELSE CHOOSE p \in hits : \A q \in hits : p <= q

\* /\s/.test(s)
HasWhitespace(s) == \E k \in 1..Len(s) : IsWhitespace(s[k])

\* the first position >= from whose character satisfies / fails a class
FirstGt(s, from) ==
    LET hits == {p \in from..Len(s) : s[p] = ">"}
    IN  IF hits = {} THEN 0 ELSE CHOOSE p \in hits : \A q \in hits : p <= q

\* the end of the maximal [a-zA-Z0-9]* run that starts at position from
RECURSIVE AlnumRunEnd(_, _)
AlnumRunEnd(s, from) ==
    IF from + 1 <= Len(s) /\ IsAlnum(s[from + 1])
    THEN AlnumRunEnd(s, from + 1)
    ELSE from

\* ------------------------------------------------------------------------
\* The tag pattern /<(\/?)([a-zA-Z][a-zA-Z0-9]*)([^>]*)>/gi and split
\* ------------------------------------------------------------------------

\* the match of the tag pattern that starts at position p, if any
TagMatchAt(h, p) ==
    LET q  == IF p + 1 <= Len(h) /\ h[p + 1] = "/" THEN p + 2 ELSE p + 1
        ok == /\ p <= Len(h) /\ h[p] = "<"
              /\ q <= Len(h) /\ IsLetter(h[q])
        ne == AlnumRunEnd(h, q)
        gt == FirstGt(h, ne + 1)
    IN  IF ok /\ gt # 0
        THEN [found |-> TRUE,
              slash |-> IF q = p + 2 THEN <<"/">> ELSE <<>>,
              name  |-> SubSeq(h, q, ne),
              attrs |-> SubSeq(h, ne + 1, gt - 1),
              end   |-> gt]
        ELSE [found |-> FALSE, slash |-> <<>>, name |-> <<>>, attrs |-> <<>>, end |-> 0]

RECURSIVE SplitFrom(_, _, _)
\* html.split(tagPattern): text, slash, name, attributes, text, ...
SplitFrom(h, textStart, p) ==
    IF p > Len(h)
    THEN << SubSeq(h, textStart, Len(h)) >>
    ELSE LET m == TagMatchAt(h, p)
         IN  IF m.found
             THEN << SubSeq(h, textStart, p - 1), m.slash, m.name, m.attrs >>
                  \o SplitFrom(h, m.end + 1, m.end + 1)
             ELSE SplitFrom(h, textStart, p + 1)

SplitByTagPattern(h) == SplitFrom(h, 1, 1)

\* ------------------------------------------------------------------------
\* String literals of the source
\* ------------------------------------------------------------------------

SLASH == <<"/">>
NEWLINE == <<"\n">>
TAG_B == <<"b">>
TAG_STRONG == <<"s","t","r","o","n","g">>
TAG_I == <<"i">>
TAG_EM == <<"e","m">>
TAG_U == <<"u">>
TAG_SPAN == <<"s","p","a","n">>
TAG_H1 == <<"h","1">>
TAG_H2 == <<"h","2">>
TAG_P == <<"p">>
TAG_BR == <<"b","r">>
TAG_A == <<"a">>
UNORDERED_LIST == <<"u","l">>
ORDERED_LIST == <<"o","l">>
LIST_ITEM == <<"l","i">>
BULLET == <<"*"," ">>
NUMBER_SUFFIX == <<"."," ">>
BLACK == <<"#","0","0","0","0","0","0">>
STYLE_EQ == <<"s","t","y","l","e","=">>
HREF_EQ == <<"h","r","e","f","=">>
LINK_BLUE == <<"#","0","0","6","6","C","C">>
PROP_COLOR == <<"c","o","l","o","r">>
PROP_FONT_WEIGHT == <<"f","o","n","t","-","w","e","i","g","h","t">>
PROP_FONT_STYLE == <<"f","o","n","t","-","s","t","y","l","e">>
PROP_TEXT_DECORATION == <<"t","e","x","t","-","d","e","c","o","r","a","t","i","o","n">>
VAL_BOLD == <<"b","o","l","d">>
VAL_NORMAL == <<"n","o","r","m","a","l">>
VAL_ITALIC == <<"i","t","a","l","i","c">>
VAL_OBLIQUE == <<"o","b","l","i","q","u","e">>
VAL_UNDERLINE == <<"u","n","d","e","r","l","i","n","e">>
VAL_NONE == <<"n","o","n","e">>
VAL_LINE_THROUGH == <<"l","i","n","e","-","t","h","r","o","u","g","h">>

\* the name of the custom strategy the parser is constructed with, and a
\* tag name no strategy is registered for
TAG_CUSTOM == <<"z">>
TAG_UNKNOWN == <<"q">>

\* ------------------------------------------------------------------------
\* TextStyle and TextSegment
\* ------------------------------------------------------------------------
\* Optional fields carry a value that reads as "absent": fontSize 0,
\* isListItem FALSE with listNestingLevel 0, listType <<>>, spacingContext
\* "undefined" (hasSpaceAfter is assigned exactly when spacingContext is,
\* and an absent hasSpaceAfter reads FALSE as JavaScript's undefined does).

NoListType == <<>>

\* StyleHelpers.getDefaultStyle
getDefaultStyle ==
    [fontWeight |-> "normal", fontStyle |-> "normal", color |-> BLACK,
     textDecoration |-> "none", fontSize |-> 0,
     isListItem |-> FALSE, listNestingLevel |-> 0, listType |-> NoListType]

\* { text, ...style }
MakeSegment(text, style) ==
    [text |-> text,
     fontWeight |-> style.fontWeight, fontStyle |-> style.fontStyle,
     color |-> style.color, textDecoration |-> style.textDecoration,
     fontSize |-> style.fontSize, isListItem |-> style.isListItem,
     listNestingLevel |-> style.listNestingLevel, listType |-> style.listType,
     hasSpaceAfter |-> FALSE, spacingContext |-> "undefined"]

\* headingSizes
headingSizes(tagName) ==
    IF tagName = TAG_H1 THEN 32 ELSE IF tagName = TAG_H2 THEN 24 ELSE 16

\* ------------------------------------------------------------------------
\* StyleHelpers: the style attribute of a span
\* ------------------------------------------------------------------------

IsQuote(c) == c \in {"'", "\""}

FirstQuote(s, from) ==
    LET hits == {p \in from..Len(s) : IsQuote(s[p])}
    IN  IF hits = {} THEN 0 ELSE CHOOSE p \in hits : \A q \in hits : p <= q

\* attributes.match(/style=['"](.*?)['"]/): [found, value]; a match whose
\* group is empty counts as no style attribute
extractStyleAttribute(attributes) ==
    LET n    == Len(STYLE_EQ)
        hits == {p \in 1..Len(attributes) :
                    /\ OccursAt(attributes, STYLE_EQ, p)
                    /\ p + n <= Len(attributes)
                    /\ IsQuote(attributes[p + n])
                    /\ FirstQuote(attributes, p + n + 1) # 0}
        p0   == CHOOSE p \in hits : \A q \in hits : p <= q
        v    == SubSeq(attributes, p0 + n + 1, FirstQuote(attributes, p0 + n + 1) - 1)
    IN  IF hits = {} \/ v = <<>>
        THEN [found |-> FALSE, value |-> <<>>]
        ELSE [found |-> TRUE, value |-> v]

RECURSIVE SkipWhitespace(_, _)
\* the first position >= from that holds no whitespace (Len + 1 at the end)
SkipWhitespace(s, from) ==
    IF from <= Len(s) /\ IsWhitespace(s[from]) THEN SkipWhitespace(s, from + 1) ELSE from

RECURSIVE ValueEnd(_, _)
\* the last position of the [^;]+ run that starts at from
ValueEnd(s, from) ==
    IF from + 1 <= Len(s) /\ s[from + 1] # ";" THEN ValueEnd(s, from + 1) ELSE from

\* \s*([^;]+) tried at position a: [found, from, to]
ValueMatchAt(s, a) ==
    LET b == SkipWhitespace(s, a)
    IN  IF b <= Len(s) /\ s[b] # ";"
        THEN [found |-> TRUE, from |-> b, to |-> ValueEnd(s, b)]
        ELSE IF b > a
             THEN [found |-> TRUE, from |-> b - 1, to |-> b - 1]
             ELSE [found |-> FALSE, from |-> 0, to |-> 0]

\* styleStr.match(/<prop>:\s*([^;]+)/): [found, value], value trimmed
MatchCssProperty(styleStr, prop) ==
    LET key  == prop \o <<":">>
        hits == {p \in 1..Len(styleStr) :
                    /\ OccursAt(styleStr, key, p)
                    /\ ValueMatchAt(styleStr, p + Len(key)).found}
        p0   == CHOOSE p \in hits : \A q \in hits : p <= q
        m    == ValueMatchAt(styleStr, p0 + Len(key))
    IN  IF hits = {}
        THEN [found |-> FALSE, value |-> <<>>]
        ELSE [found |-> TRUE, value |-> Trim(SubSeq(styleStr, m.from, m.to))]

DigitValue(c) == CHOOSE d \in 0..9 : <<"0","1","2","3","4","5","6","7","8","9">>[d + 1] = c

RECURSIVE ParseDigits(_, _)
ParseDigits(s, acc) ==
    IF s # <<>> /\ Head(s) \in DIGITS
    THEN ParseDigits(Tail(s), IF acc >= 1000 THEN acc ELSE acc * 10 + DigitValue(Head(s)))
    ELSE acc

\* parseInt(weight) >= 600 (NaN compares false)
ParseIntAtLeast600(s) == s # <<>> /\ Head(s) \in DIGITS /\ ParseDigits(s, 0) >= 600

\* s.includes(needle)
Includes(s, needle) == IndexOf(s, needle, 1) # 0

\* StyleHelpers.parseAllCssProperties: parseColor, parseFontWeight,
\* parseFontStyle, parseTextDecoration
parseAllCssProperties(styleStr, style) ==
    LET c == MatchCssProperty(styleStr, PROP_COLOR)
        w == MatchCssProperty(styleStr, PROP_FONT_WEIGHT)
        f == MatchCssProperty(styleStr, PROP_FONT_STYLE)
        d == MatchCssProperty(styleStr, PROP_TEXT_DECORATION)
    IN  [style EXCEPT
          !.color = IF c.found THEN c.value ELSE @,
          !.fontWeight =
              IF w.found
              THEN IF w.value = VAL_BOLD \/ ParseIntAtLeast600(w.value)
                   THEN "bold" ELSE "normal"
              ELSE @,
          !.fontStyle =
              IF f.found
              THEN IF f.value = VAL_ITALIC \/ f.value = VAL_OBLIQUE
                   THEN "italic" ELSE "normal"
              ELSE @,
          !.textDecoration =
              IF d.found
              THEN IF Includes(d.value, VAL_UNDERLINE) THEN "underline" ELSE "none"
              ELSE @]

\* an error message with the text interpolated into it
Err(kind, arg) == [kind |-> kind, arg |-> arg]

IsPropChar(c) == IsLetter(c) \/ c = "-"

RECURSIVE PropRunEnd(_, _)
\* the end of the maximal [a-zA-Z-]+ run that starts at position from
PropRunEnd(s, from) ==
    IF from + 1 <= Len(s) /\ IsPropChar(s[from + 1]) THEN PropRunEnd(s, from + 1) ELSE from

\* /([a-zA-Z-]+)\s*:\s*([^;]+)/ tried at position p
CssDeclAt(s, p) ==
    LET r  == PropRunEnd(s, p)
        c  == SkipWhitespace(s, r + 1)
        ok == p <= Len(s) /\ IsPropChar(s[p]) /\ c <= Len(s) /\ s[c] = ":"
        vm == ValueMatchAt(s, c + 1)
    IN  IF ok /\ vm.found
        THEN [found |-> TRUE, property |-> SubSeq(s, p, r),
              value |-> Trim(SubSeq(s, vm.from, vm.to)), end |-> vm.to]
        ELSE [found |-> FALSE, property |-> <<>>, value |-> <<>>, end |-> 0]

VALID_FONT_WEIGHTS ==
    {VAL_NORMAL, VAL_BOLD} \cup {<<d, "0", "0">> : d \in {"1","2","3","4","5","6","7","8","9"}}

VALID_FONT_STYLES == {VAL_NORMAL, VAL_ITALIC, VAL_OBLIQUE}

VALID_TEXT_DECORATIONS == {VAL_NONE, VAL_UNDERLINE, VAL_LINE_THROUGH}

IsHexDigit(c) == c \in DIGITS \/ LowerChar(c) \in {"a","b","c","d","e","f"}

\* /^(#[0-9a-f]{3,6}|[a-z]+|rgb\(.*\))$/i
IsValidColor(v) ==
    \/ /\ Len(v) \in 4..7 /\ v[1] = "#"
       /\ \A k \in 2..Len(v) : IsHexDigit(v[k])
    \/ /\ v # <<>> /\ \A k \in 1..Len(v) : IsLetter(v[k])
    \/ /\ Len(v) >= 5 /\ ToLowerCase(SubSeq(v, 1, 4)) = <<"r","g","b","(">>
       /\ v[Len(v)] = ")"

\* StyleHelpers.validateCssProperty
validateCssProperty(property, value) ==
    IF property = PROP_FONT_WEIGHT
    THEN IF value \in VALID_FONT_WEIGHTS THEN <<>>
         ELSE << Err("Invalid font-weight value", value) >>
    ELSE IF property = PROP_FONT_STYLE
    THEN IF value \in VALID_FONT_STYLES THEN <<>>
         ELSE << Err("Invalid font-style value", value) >>
    ELSE IF property = PROP_TEXT_DECORATION
    THEN IF \E d \in VALID_TEXT_DECORATIONS : Includes(value, d) THEN <<>>
         ELSE << Err("Invalid text-decoration value", value) >>
    ELSE IF property = PROP_COLOR
    THEN IF IsValidColor(value) THEN <<>>
         ELSE << Err("Invalid color value", value) >>
    ELSE <<>>

RECURSIVE CssDeclErrors(_, _)
\* the while loop of validateStyleAttribute over the declarations
CssDeclErrors(s, from) ==
    LET hits == {p \in from..Len(s) : CssDeclAt(s, p).found}
        p0   == CHOOSE p \in hits : \A q \in hits : p <= q
        m    == CssDeclAt(s, p0)
    IN  IF hits = {} THEN <<>>
        ELSE (IF m.property \in {PROP_COLOR, PROP_FONT_WEIGHT, PROP_FONT_STYLE,
                                 PROP_TEXT_DECORATION}
              THEN validateCssProperty(m.property, m.value)
              ELSE << Err("Unsupported CSS property", m.property) >>)
             \o CssDeclErrors(s, m.end + 1)

\* StyleHelpers.validateStyleAttribute: the errors (isValid = no errors)
validateStyleAttribute(attributes) ==
    LET st == extractStyleAttribute(attributes)
    IN  IF ~st.found THEN <<>> ELSE CssDeclErrors(st.value, 1)

LIST_ATTRIBUTE_NAMES ==
    {<<"c","l","a","s","s">>, <<"i","d">>, <<"s","t","y","l","e">>,
     <<"t","y","p","e">>, <<"s","t","a","r","t">>}

RECURSIVE MatchesListAttributes(_, _)
\* /^(\s*(class|id|style|type|start)\s*=\s*["'][^"']*["']\s*)*$/i from position p
MatchesListAttributes(s, p) ==
    IF p > Len(s) THEN TRUE
    ELSE LET a == SkipWhitespace(s, p)
             l == ToLowerCase(s)
         IN  \E n \in LIST_ATTRIBUTE_NAMES :
                /\ OccursAt(l, n, a)
                /\ LET e  == SkipWhitespace(s, a + Len(n))
                       q1 == SkipWhitespace(s, e + 1)
                       q2 == FirstQuote(s, q1 + 1)
                   IN  /\ e <= Len(s) /\ s[e] = "="
                       /\ q1 <= Len(s) /\ IsQuote(s[q1])
                       /\ q2 # 0
                       /\ MatchesListAttributes(s, SkipWhitespace(s, q2 + 1))

\* validateCommonListAttributes of the list child strategies: the errors
validateCommonListAttributes(attributes) ==
    IF Trim(attributes) # <<>> /\ ~MatchesListAttributes(Trim(attributes), 1)
    THEN << Err("Invalid or unsupported attributes for list tag", <<>>) >>
    ELSE <<>>

\* ------------------------------------------------------------------------
\* HyperlinkTagStrategy: the href attribute
\* ------------------------------------------------------------------------

\* url.startsWith(prefix)
StartsWith(url, prefix) == OccursAt(url, prefix, 1)

\* attributes.match(/href=['"](.*?)['"]/): [found, value]; the group may
\* be empty
extractHref(attributes) ==
    LET n    == Len(HREF_EQ)
        hits == {p \in 1..Len(attributes) :
                    /\ OccursAt(attributes, HREF_EQ, p)
                    /\ p + n <= Len(attributes)
                    /\ IsQuote(attributes[p + n])
                    /\ FirstQuote(attributes, p + n + 1) # 0}
        p0   == CHOOSE p \in hits : \A q \in hits : p <= q
    IN  IF hits = {}
        THEN [found |-> FALSE, value |-> <<>>]
        ELSE [found |-> TRUE,
              value |-> SubSeq(attributes, p0 + n + 1,
                               FirstQuote(attributes, p0 + n + 1) - 1)]

\* HyperlinkTagStrategy.isValidUrl; new URL(url) of an absolute URL throws
\* when no host follows the scheme or the URL holds whitespace
isValidUrl(url) ==
    IF StartsWith(url, <<"/">>) \/ StartsWith(url, <<".","/">>)
           \/ StartsWith(url, <<".",".","/">>)
    THEN TRUE
    ELSE IF StartsWith(url, <<"h","t","t","p",":","/","/">>)
    THEN Len(url) > 7 /\ ~HasWhitespace(url)
    ELSE IF StartsWith(url, <<"h","t","t","p","s",":","/","/">>)
    THEN Len(url) > 8 /\ ~HasWhitespace(url)
    ELSE IF Includes(url, <<":","/","/">>) THEN TRUE
    ELSE StartsWith(url, <<"#">>) \/ StartsWith(url, <<"?">>)

\* HyperlinkTagStrategy.validateAttributes: the errors (isValid = no errors)
validateHref(attributes) ==
    LET m == extractHref(attributes)
    IN  IF ~m.found THEN <<>>
        ELSE (IF m.value = <<>> \/ Trim(m.value) = <<>>
              THEN << Err("Hyperlink has empty href attribute", <<>>) >> ELSE <<>>)
             \o (IF m.value # <<>> /\ ~isValidUrl(m.value)
                 THEN << Err("Invalid URL in href attribute", <<>>) >> ELSE <<>>)

\* ------------------------------------------------------------------------
\* TextHelpers
\* ------------------------------------------------------------------------

\* Array.prototype.slice(k): the sequence without its first k elements
Slice(s, k) == SubSeq(s, k + 1, Len(s))

\* TextHelpers.needsLineBreak
needsLineBreak(segs) ==
    /\ segs # <<>>
    /\ segs[Len(segs)].text # NEWLINE
    /\ Trim(segs[Len(segs)].text) # <<>>

\* TextHelpers.hasMoreContent
hasMoreContent(remainingParts, currentIndex) ==
    Len(Trim(Concat(Slice(remainingParts, currentIndex)))) > 0

\* ------------------------------------------------------------------------
\* CompositeHelpers: the static maps, keyed by family
\* ------------------------------------------------------------------------
\* cs = [stacks |-> family -> sequence of tag types,
\*       counters |-> family -> (counter key -> number)]

FAMILY == "list"

EmptyMap == [x \in {} |-> 0]

MapPut(f, k, v) == [x \in (DOMAIN f) \cup {k} |-> IF x = k THEN v ELSE f[x]]

MapDelete(f, k) == [x \in (DOMAIN f) \ {k} |-> f[x]]

EmptyCompositeState == [stacks |-> EmptyMap, counters |-> EmptyMap]

\* resetCompositeState that deletes nothing: what the isolation of parse
\* passes (C5) rests on
resetCompositeState_Keep(cs, family) == cs

\* CompositeHelpers.resetCompositeState(family)
resetCompositeState(cs, family) ==
    [stacks |-> MapDelete(cs.stacks, family),
     counters |-> MapDelete(cs.counters, family)]

\* generateCounterKey without the nesting level, one counter for all depths:
\* what the numbering around nested lists (C6) rests on
generateCounterKey_NoLevel(family, tagType, nestingLevel) == <<family, tagType, 0>>

\* CompositeHelpers.generateCounterKey
generateCounterKey(family, tagType, nestingLevel) == <<family, tagType, nestingLevel>>

\* CompositeHelpers.getCompositeStack
getCompositeStack(cs, family) ==
    IF family \in DOMAIN cs.stacks THEN cs.stacks[family] ELSE <<>>

\* CompositeHelpers.pushToStack
pushToStack(cs, family, tagType, needsCounter) ==
    LET stack == Append(getCompositeStack(cs, family), tagType)
        fc    == IF family \in DOMAIN cs.counters THEN cs.counters[family] ELSE EmptyMap
    IN  [stacks |-> MapPut(cs.stacks, family, stack),
         counters |->
            IF needsCounter
            THEN MapPut(cs.counters, family,
                        MapPut(fc, generateCounterKey(family, tagType, Len(stack)), 0))
            ELSE cs.counters]

\* CompositeHelpers.popFromStack
popFromStack(cs, family, shouldCleanupCounters) ==
    LET stack  == getCompositeStack(cs, family)
        popped == stack[Len(stack)]
        rest   == SubSeq(stack, 1, Len(stack) - 1)
    IN  IF stack = <<>> THEN cs
        ELSE [stacks |-> MapPut(cs.stacks, family, rest),
              counters |->
                 IF shouldCleanupCounters /\ family \in DOMAIN cs.counters
                 THEN MapPut(cs.counters, family,
                             MapDelete(cs.counters[family],
                                       generateCounterKey(family, popped, Len(rest) + 1)))
                 ELSE cs.counters]

\* CompositeHelpers.getCurrentNestingLevel
getCurrentNestingLevel(cs, family) == Len(getCompositeStack(cs, family))

\* CompositeHelpers.getParentType (<<>> for undefined)
getParentType(cs, family) ==
    LET stack == getCompositeStack(cs, family)
    IN  IF stack # <<>> THEN stack[Len(stack)] ELSE NoListType

\* CompositeHelpers.incrementAndGetCounter: [count, cs]
incrementAndGetCounter(cs, family, tagType, nestingLevel) ==
    IF family \notin DOMAIN cs.counters
    THEN [count |-> 1, cs |-> cs]
    ELSE LET fc  == cs.counters[family]
             key == generateCounterKey(family, tagType, nestingLevel)
             cur == (IF key \in DOMAIN fc THEN fc[key] ELSE 0) + 1
         IN  [count |-> cur,
              cs |-> [cs EXCEPT !.counters = MapPut(@, family, MapPut(fc, key, cur))]]

\* ------------------------------------------------------------------------
\* ListHelpers
\* ------------------------------------------------------------------------

RECURSIVE NumberToString(_)
\* the decimal digits of a number >= 0
NumberToString(n) ==
    LET d == <<"0","1","2","3","4","5","6","7","8","9">>[(n % 10) + 1]
    IN  IF n < 10 THEN <<d>> ELSE Append(NumberToString(n \div 10), d)

\* ListHelpers.getListItemPrefix(LIST_ITEM): [prefix, cs]
getListItemPrefix(cs) ==
    LET parentListType == getParentType(cs, FAMILY)
        c == incrementAndGetCounter(cs, FAMILY, ORDERED_LIST,
                                    getCurrentNestingLevel(cs, FAMILY))
    IN  IF parentListType = UNORDERED_LIST
        THEN [prefix |-> BULLET, cs |-> cs]
        ELSE IF parentListType = ORDERED_LIST
        THEN [prefix |-> NumberToString(c.count) \o NUMBER_SUFFIX, cs |-> c.cs]
        ELSE [prefix |-> <<>>, cs |-> cs]

\* ListHelpers.applyListStyling(style, LIST_ITEM)
applyListStyling(cs, style) ==
    [style EXCEPT !.isListItem = TRUE,
                  !.listNestingLevel = getCurrentNestingLevel(cs, FAMILY),
                  !.listType = getParentType(cs, FAMILY)]

\* ------------------------------------------------------------------------
\* The strategy registry of the parser
\* ------------------------------------------------------------------------

\* the parser is constructed with one custom strategy, registered for the
\* tag TAG_CUSTOM, whose parse throws
customStrategies == {TAG_CUSTOM}

\* strategyRegistry.getStrategy(tagName): the strategy class registered for
\* the name, "none" for undefined
getStrategy(tagName) ==
    IF tagName \in customStrategies THEN "Custom"
    ELSE IF tagName \in {TAG_B, TAG_STRONG} THEN "Bold"
    ELSE IF tagName \in {TAG_I, TAG_EM} THEN "Italic"
    ELSE IF tagName = TAG_U THEN "Underline"
    ELSE IF tagName = TAG_SPAN THEN "Span"
    ELSE IF tagName \in {TAG_H1, TAG_H2} THEN "Heading"
    ELSE IF tagName = TAG_P THEN "Paragraph"
    ELSE IF tagName = TAG_A THEN "Hyperlink"
    ELSE IF tagName = TAG_BR THEN "LineBreak"
    ELSE IF tagName \in {UNORDERED_LIST, ORDERED_LIST, LIST_ITEM} THEN "List"
    ELSE "none"

\* ------------------------------------------------------------------------
\* Tag strategies
\* ------------------------------------------------------------------------
\* context = [currentStyle, segments, attributes, tagName, isClosingTag,
\*            remainingParts, currentIndex]
\* A parse returns the ParsedOutput, the composite state it leaves and
\* whether it threw.

ParsedOutput(newSegments, updatedStyle, push, pop, errs, cs) ==
    [newSegments |-> newSegments, updatedStyle |-> updatedStyle,
     pushStyleToStack |-> push, popFromStyleStack |-> pop,
     errors |-> errs, cs |-> cs, threw |-> FALSE]

\* applyStyle of the strategies that keep no state
applyStyle(strategy, currentStyle, attributes, tagName) ==
    IF strategy = "Bold" THEN [currentStyle EXCEPT !.fontWeight = "bold"]
    ELSE IF strategy = "Italic" THEN [currentStyle EXCEPT !.fontStyle = "italic"]
    ELSE IF strategy = "Underline" THEN [currentStyle EXCEPT !.textDecoration = "underline"]
    ELSE IF strategy = "Span"
    THEN LET st == extractStyleAttribute(attributes)
         IN  IF ~st.found THEN currentStyle
             ELSE parseAllCssProperties(st.value, currentStyle)
    ELSE IF strategy = "Heading"
    THEN [currentStyle EXCEPT !.fontWeight = "bold", !.fontSize = headingSizes(tagName)]
    ELSE IF strategy = "Hyperlink"
    THEN [currentStyle EXCEPT !.color = LINK_BLUE, !.textDecoration = "underline"]
    ELSE currentStyle

\* validateAttributes of a strategy: the errors
validateAttributes(strategy, attributes) ==
    IF strategy = "Span" THEN validateStyleAttribute(attributes)
    ELSE IF strategy = "Hyperlink" THEN validateHref(attributes)
    ELSE <<>>

\* BaseTagStrategy.parse with a closing tag that asks for no pop: what the
\* balance of the style stack (C3) rests on
BaseTagStrategy_parse_NoPop(strategy, context, cs) ==
    IF context.isClosingTag
    THEN ParsedOutput(<<>>, context.currentStyle, FALSE, FALSE, <<>>, cs)
    ELSE ParsedOutput(<<>>,
                      applyStyle(strategy, context.currentStyle, context.attributes,
                                 context.tagName),
                      TRUE, FALSE,
                      validateAttributes(strategy, context.attributes), cs)

\* BaseTagStrategy.parse that drops an opening tag whose attributes fail
\* validation: what the full effect of such a tag (C25) rests on
BaseTagStrategy_parse_RejectInvalid(strategy, context, cs) ==
    IF context.isClosingTag
    THEN ParsedOutput(<<>>, context.currentStyle, FALSE, TRUE, <<>>, cs)
    ELSE IF validateAttributes(strategy, context.attributes) # <<>>
    THEN ParsedOutput(<<>>, context.currentStyle, FALSE, FALSE,
                      validateAttributes(strategy, context.attributes), cs)
    ELSE ParsedOutput(<<>>,
                      applyStyle(strategy, context.currentStyle, context.attributes,
                                 context.tagName),
                      TRUE, FALSE, <<>>, cs)

\* BaseTagStrategy.parse, the default of the style-only tags, which
\* HyperlinkTagStrategy.parse repeats line by line
BaseTagStrategy_parse(strategy, context, cs) ==
    IF context.isClosingTag
    THEN ParsedOutput(<<>>, context.currentStyle, FALSE, TRUE, <<>>, cs)
    ELSE ParsedOutput(<<>>,
                      applyStyle(strategy, context.currentStyle, context.attributes,
                                 context.tagName),
                      TRUE, FALSE,
                      validateAttributes(strategy, context.attributes), cs)

\* BaseTagStrategy.handleBlockLevelOpeningTag
handleBlockLevelOpeningTag(strategy, context, cs) ==
    ParsedOutput(IF needsLineBreak(context.segments)
                 THEN << MakeSegment(NEWLINE, context.currentStyle) >> ELSE <<>>,
                 applyStyle(strategy, context.currentStyle, context.attributes,
                            context.tagName),
                 TRUE, FALSE,
                 validateAttributes(strategy, context.attributes), cs)

\* BaseTagStrategy.handleBlockLevelClosingTag
handleBlockLevelClosingTag(context, cs) ==
    ParsedOutput(IF hasMoreContent(context.remainingParts, context.currentIndex)
                 THEN << MakeSegment(NEWLINE, context.currentStyle) >> ELSE <<>>,
                 context.currentStyle, FALSE, TRUE, <<>>, cs)

\* HeadingTagStrategy.parse and ParagraphTagStrategy.parse
BlockTagStrategy_parse(strategy, context, cs) ==
    IF context.isClosingTag
    THEN handleBlockLevelClosingTag(context, cs)
    ELSE handleBlockLevelOpeningTag(strategy, context, cs)

\* LineBreakTagStrategy.parse whose closing tag asks for a pop as the
\* closing tags of the elements do: what the frame of </br> (C26) rests on
LineBreakTagStrategy_parse_Pop(context, cs) ==
    IF context.isClosingTag
    THEN ParsedOutput(<<>>, context.currentStyle, FALSE, TRUE,
                      << Err("Unexpected closing tag for self-closing <br> element", <<>>) >>,
                      cs)
    ELSE ParsedOutput(<< MakeSegment(NEWLINE, context.currentStyle) >>,
                      context.currentStyle, FALSE, FALSE, <<>>, cs)

\* LineBreakTagStrategy.parse
LineBreakTagStrategy_parse(context, cs) ==
    IF context.isClosingTag
    THEN ParsedOutput(<<>>, context.currentStyle, FALSE, FALSE,
                      << Err("Unexpected closing tag for self-closing <br> element", <<>>) >>,
                      cs)
    ELSE ParsedOutput(<< MakeSegment(NEWLINE, context.currentStyle) >>,
                      context.currentStyle, FALSE, FALSE, <<>>, cs)

\* UnorderedListStrategy.parse and OrderedListStrategy.parse
ListContainerStrategy_parse(context, cs) ==
    IF context.isClosingTag
    THEN ParsedOutput(IF hasMoreContent(context.remainingParts, context.currentIndex)
                      THEN << MakeSegment(NEWLINE, context.currentStyle) >> ELSE <<>>,
                      context.currentStyle, FALSE, TRUE, <<>>, cs)
    ELSE ParsedOutput(IF needsLineBreak(context.segments)
                      THEN << MakeSegment(NEWLINE, context.currentStyle) >> ELSE <<>>,
                      context.currentStyle, TRUE, FALSE,
                      validateCommonListAttributes(context.attributes), cs)

\* a prefix segment that keeps the emphasis of the item: what the plain
\* prefix (C8) rests on
PrefixSegment_Inherit(prefix, newStyle) ==
    [MakeSegment(prefix, newStyle)
        EXCEPT !.hasSpaceAfter = TRUE, !.spacingContext = "list-prefix"]

\* the prefix segment of a list item: the item's style with weight, style,
\* decoration and colour reset
PrefixSegment(prefix, newStyle) ==
    [MakeSegment(prefix, [newStyle EXCEPT !.textDecoration = "none",
                                          !.fontWeight = "normal",
                                          !.fontStyle = "normal",
                                          !.color = BLACK])
        EXCEPT !.hasSpaceAfter = TRUE, !.spacingContext = "list-prefix"]

\* ListItemStrategy.parse
ListItemStrategy_parse(context, cs) ==
    IF context.isClosingTag
    THEN ParsedOutput(<<>>, context.currentStyle, FALSE, TRUE, <<>>, cs)
    ELSE LET newStyle == applyListStyling(cs, context.currentStyle)
             p        == getListItemPrefix(cs)
         IN  ParsedOutput(
                 (IF needsLineBreak(context.segments)
                  THEN << MakeSegment(NEWLINE, context.currentStyle) >> ELSE <<>>)
                 \o (IF p.prefix # <<>> THEN << PrefixSegment(p.prefix, newStyle) >>
                     ELSE <<>>),
                 newStyle, TRUE, FALSE,
                 validateCommonListAttributes(context.attributes), p.cs)

\* the stackConfig of ListTagStrategy: manageStack and needsCounter of a tag
manageStack(tagName) == tagName \in {UNORDERED_LIST, ORDERED_LIST}

needsCounter(tagName) == tagName = ORDERED_LIST

\* CompositeParseStrategy.parse of the list family
CompositeParseStrategy_parse(context, cs) ==
    LET managed ==
            IF manageStack(context.tagName)
            THEN IF context.isClosingTag
                 THEN popFromStack(cs, FAMILY, needsCounter(context.tagName))
                 ELSE pushToStack(cs, FAMILY, context.tagName, needsCounter(context.tagName))
            ELSE cs
    IN  IF context.tagName = LIST_ITEM
        THEN ListItemStrategy_parse(context, managed)
        ELSE ListContainerStrategy_parse(context, managed)

\* a custom strategy whose parse throws
CustomStrategy_parse(context, cs) ==
    [ParsedOutput(<<>>, context.currentStyle, FALSE, FALSE, <<>>, cs)
        EXCEPT !.threw = TRUE]

\* strategy.parse(context)
Strategy_parse(strategy, context, cs) ==
    IF strategy = "Custom" THEN CustomStrategy_parse(context, cs)
    ELSE IF strategy = "List" THEN CompositeParseStrategy_parse(context, cs)
    ELSE IF strategy = "LineBreak" THEN LineBreakTagStrategy_parse(context, cs)
    ELSE IF strategy \in {"Heading", "Paragraph"}
    THEN BlockTagStrategy_parse(strategy, context, cs)
    ELSE BaseTagStrategy_parse(strategy, context, cs)

\* ------------------------------------------------------------------------
\* SpacingAnalyzer
\* ------------------------------------------------------------------------

RECURSIVE normalizeSegmentWhitespace(_)
\* TextHelpers.normalizeSegmentWhitespace
normalizeSegmentWhitespace(segs) ==
    IF segs = <<>> THEN <<>>
    ELSE LET seg == Head(segs)
             rest == normalizeSegmentWhitespace(Tail(segs))
         IN  IF seg.text = NEWLINE THEN <<seg>> \o rest
             ELSE IF Trim(seg.text) = <<>> THEN rest
             ELSE << [seg EXCEPT !.text = Trim(seg.text)] >> \o rest

RECURSIVE CollapseWhitespace(_)
\* replace(/\s+/g, ' ')
CollapseWhitespace(s) ==
    IF s = <<>> THEN <<>>
    ELSE IF IsWhitespace(Head(s))
         THEN <<" ">> \o CollapseWhitespace(TrimStart(s))
         ELSE <<Head(s)>> \o CollapseWhitespace(Tail(s))

\* TextHelpers.cleanHtmlWhitespace
cleanHtmlWhitespace(h) == Trim(CollapseWhitespace(h))

\* indexOf and substring with JavaScript's 0-based positions
JsIndexOf(hay, needle, from) == IndexOf(hay, needle, from + 1) - 1

JsSubstring(s, a, b) ==
    IF a <= b THEN SubSeq(s, a + 1, b) ELSE SubSeq(s, b + 1, a)

RECURSIVE MapPositionsFrom(_, _, _, _)
\* the forEach of mapSegmentsToHtmlPositions from segment k on
MapPositionsFrom(segs, h, k, searchStartIndex) ==
    IF k > Len(segs) THEN <<>>
    ELSE LET segmentText == Trim(segs[k].text)
             textIndex   == JsIndexOf(h, segmentText, searchStartIndex)
         IN  IF segs[k].text = NEWLINE \/ segmentText = <<>> \/ textIndex = -1
             THEN << [start |-> searchStartIndex, end |-> searchStartIndex] >>
                  \o MapPositionsFrom(segs, h, k + 1, searchStartIndex)
             ELSE << [start |-> textIndex, end |-> textIndex + Len(segmentText)] >>
                  \o MapPositionsFrom(segs, h, k + 1, textIndex + Len(segmentText))

\* SpacingAnalyzer.mapSegmentsToHtmlPositions
mapSegmentsToHtmlPositions(segs, h) == MapPositionsFrom(segs, h, 1, 0)

\* SpacingAnalyzer.shouldHaveSpaceBetween (every index has a position, so
\* the text-pattern fallback of the source is never taken)
shouldHaveSpaceBetween(current, next, k, h, positions) ==
    IF current.text = NEWLINE \/ next.text = NEWLINE THEN FALSE
    ELSE HasWhitespace(JsSubstring(h, positions[k].end, positions[k + 1].start))

\* a test that takes only bold text to come from a tag: what the contexts
\* of the other styled segments (C12) rest on
isFromTag_WeightOnly(seg) == seg.fontWeight = "bold"

\* SpacingAnalyzer.isFromTag
isFromTag(seg) ==
    \/ seg.fontWeight = "bold"
    \/ seg.fontStyle = "italic"
    \/ (seg.color # <<>> /\ seg.color # BLACK)
    \/ seg.textDecoration = "underline"
    \/ seg.textDecoration = "line-through"
    \/ (seg.fontSize # 0 /\ seg.fontSize # 14)

\* SpacingAnalyzer.getSpacingContext; hasNext is FALSE for a null next
getSpacingContext(current, hasNext, next) ==
    LET currentIsFromTag == isFromTag(current)
        nextIsFromTag    == hasNext /\ isFromTag(next)
    IN  IF currentIsFromTag /\ hasNext /\ nextIsFromTag THEN "tag-to-tag"
        ELSE IF currentIsFromTag /\ hasNext /\ ~nextIsFromTag THEN "tag-to-text"
        ELSE IF ~currentIsFromTag /\ hasNext /\ nextIsFromTag THEN "text-to-tag"
        ELSE "text-to-text"

\* the callback of normalizedSegments.map in analyzeAndAssignSpacing
SpacedSegment(segs, k, h, positions) ==
    IF segs[k].spacingContext = "list-prefix"
    THEN [segs[k] EXCEPT !.hasSpaceAfter = TRUE, !.spacingContext = "list-prefix"]
    ELSE IF k >= Len(segs)
    THEN [segs[k] EXCEPT !.hasSpaceAfter = FALSE,
                         !.spacingContext = getSpacingContext(segs[k], FALSE, segs[k])]
    ELSE [segs[k] EXCEPT
            !.hasSpaceAfter = shouldHaveSpaceBetween(segs[k], segs[k + 1], k, h, positions),
            !.spacingContext = getSpacingContext(segs[k], TRUE, segs[k + 1])]

\* SpacingAnalyzer.analyzeAndAssignSpacing
analyzeAndAssignSpacing(segs, originalHtml) ==
    LET normalizedSegments == normalizeSegmentWhitespace(segs)
        cleanedHtml        == cleanHtmlWhitespace(originalHtml)
        segmentPositions   == mapSegmentsToHtmlPositions(normalizedSegments, cleanedHtml)
    IN  IF Len(normalizedSegments) <= 1 THEN normalizedSegments
        ELSE [k \in 1..Len(normalizedSegments) |->
                 SpacedSegment(normalizedSegments, k, cleanedHtml, segmentPositions)]

\* ------------------------------------------------------------------------
\* HTMLParser.validateHTML
\* ------------------------------------------------------------------------

\* a validation that tracks every tag, br and its like too: what the
\* exemption of the self-closing tags (C11) rests on
isSelfClosingTag_None(tagName) == FALSE

\* HTMLParser.isSelfClosingTag
isSelfClosingTag(tagName) ==
    tagName \in {TAG_BR, <<"h","r">>, <<"i","m","g">>, <<"i","n","p","u","t">>,
                 <<"m","e","t","a">>, <<"l","i","n","k">>}

\* strategyRegistry.isSupported
isSupported(tagName) == getStrategy(tagName) # "none"

\* the number of tags the tag pattern matches in the input split into ps
TagCount(ps) == (Len(ps) - 1) \div 4

RECURSIVE ValidateTagsFrom(_, _, _)
\* the while loop of validateHTML from the k-th tag on: [openTags, errors]
ValidateTagsFrom(ps, k, openTags) ==
    IF k > TagCount(ps) THEN [openTags |-> openTags, errors |-> <<>>]
    ELSE LET isClosing == ps[4 * k - 2] = SLASH
             tagName   == ToLowerCase(ps[4 * k - 1])
             mismatch  == openTags = <<>> \/ openTags[Len(openTags)] # tagName
             open1     == IF isClosing
                          THEN IF mismatch THEN openTags
                               ELSE SubSeq(openTags, 1, Len(openTags) - 1)
                          ELSE IF isSelfClosingTag(tagName) THEN openTags
                               ELSE Append(openTags, tagName)
             errs      == IF isClosing
                          THEN IF mismatch
                               THEN << Err("Mismatched closing tag", tagName) >> ELSE <<>>
                          ELSE IF ~isSupported(tagName)
                               THEN << Err("Unsupported tag", tagName) >> ELSE <<>>
             rest      == ValidateTagsFrom(ps, k + 1, open1)
         IN  [openTags |-> rest.openTags, errors |-> errs \o rest.errors]

\* HTMLParser.validateHTML: the errors (isValid = no errors)
validateHTML(h) ==
    IF h = <<>> THEN << Err("Input must be a non-empty string", <<>>) >>
    ELSE LET v == ValidateTagsFrom(SplitByTagPattern(h), 1, <<>>)
         IN  v.errors \o (IF v.openTags # <<>>
                          THEN << Err("Unclosed tags", Concat(v.openTags)) >> ELSE <<>>)

\* ------------------------------------------------------------------------
\* HTMLParser.parseHTML: one iteration of the scan
\* ------------------------------------------------------------------------
\* st = [i, currentStyle, styleStack, segments, errors, cs, threw]; i is the
\* 1-based index of the part at hand, so the loop index of the source is
\* i - 1 and the role of the part is (i - 1) % 4.

LoopIndex(st) == st.i - 1

\* a step at a tag without a strategy that falls back to the default style:
\* what the frame of that step (C9) rests on
UnsupportedStep_ResetStyle(st, kind, tagName) ==
    [st EXCEPT !.i = @ + 1, !.errors = Append(@, Err(kind, tagName)),
               !.currentStyle = getDefaultStyle]

\* a tag without a strategy: an error, and on to the next part
UnsupportedStep(st, kind, tagName) ==
    [st EXCEPT !.i = @ + 1, !.errors = Append(@, Err(kind, tagName))]

\* a closing step that pops the style stack and keeps the current style:
\* what the style of the text after a closing tag (C18) rests on
ApplyClosingResult_KeepStyle(st, r) ==
    IF r.threw THEN [st EXCEPT !.threw = TRUE, !.cs = r.cs]
    ELSE [st EXCEPT !.i = @ + 1,
                    !.segments = @ \o r.newSegments,
                    !.errors = @ \o r.errors,
                    !.cs = r.cs,
                    !.styleStack = IF r.popFromStyleStack /\ Len(@) > 1
                                   THEN SubSeq(@, 1, Len(@) - 1) ELSE @]

\* "Apply strategy results" of a closing tag, or the throw of the parse
ApplyClosingResult(st, r) ==
    IF r.threw THEN [st EXCEPT !.threw = TRUE, !.cs = r.cs]
    ELSE IF r.popFromStyleStack /\ Len(st.styleStack) > 1
    THEN [st EXCEPT !.i = @ + 1,
                    !.segments = @ \o r.newSegments,
                    !.errors = @ \o r.errors,
                    !.cs = r.cs,
                    !.styleStack = SubSeq(@, 1, Len(@) - 1),
                    !.currentStyle = st.styleStack[Len(st.styleStack) - 1]]
    ELSE [st EXCEPT !.i = @ + 1,
                    !.segments = @ \o r.newSegments,
                    !.errors = @ \o r.errors,
                    !.cs = r.cs]

\* the ParseContext of a closing tag
ClosingContext(ps, st, closingTagName) ==
    [currentStyle |-> st.currentStyle, segments |-> st.segments,
     attributes |-> <<>>, tagName |-> closingTagName, isClosingTag |-> TRUE,
     remainingParts |-> Slice(ps, LoopIndex(st) + 2),
     currentIndex |-> LoopIndex(st)]

\* the branch "i % 4 === 1" for a part '/', the closing tag being named
ClosingTagNamed(ps, st, closingTagName) ==
    IF getStrategy(closingTagName) = "none"
    THEN UnsupportedStep(st, "Unsupported closing tag", closingTagName)
    ELSE ApplyClosingResult(st, Strategy_parse(getStrategy(closingTagName),
                                               ClosingContext(ps, st, closingTagName),
                                               st.cs))

\* the branch "i % 4 === 1" for a part '/'
ClosingTagStep(ps, st) == ClosingTagNamed(ps, st, ToLowerCase(ps[st.i + 1]))

\* "Apply strategy results" of an opening tag, or the throw of the parse
ApplyOpeningResult(st, r) ==
    IF r.threw THEN [st EXCEPT !.threw = TRUE, !.cs = r.cs]
    ELSE IF r.pushStyleToStack
    THEN [st EXCEPT !.i = @ + 1,
                    !.segments = @ \o r.newSegments,
                    !.errors = @ \o r.errors,
                    !.cs = r.cs,
                    !.styleStack = Append(@, r.updatedStyle),
                    !.currentStyle = r.updatedStyle]
    ELSE [st EXCEPT !.i = @ + 1,
                    !.segments = @ \o r.newSegments,
                    !.errors = @ \o r.errors,
                    !.cs = r.cs]

\* the ParseContext of an opening tag
OpeningContext(ps, st, tagName) ==
    [currentStyle |-> st.currentStyle, segments |-> st.segments,
     attributes |-> ps[st.i + 1], tagName |-> tagName, isClosingTag |-> FALSE,
     remainingParts |-> Slice(ps, LoopIndex(st) + 4),
     currentIndex |-> LoopIndex(st)]

\* the branch "i % 4 === 2" for the name of an opening tag, lower-cased
OpeningTagNamed(ps, st, tagName) ==
    IF getStrategy(tagName) = "none"
    THEN UnsupportedStep(st, "Unsupported tag", tagName)
    ELSE ApplyOpeningResult(st, Strategy_parse(getStrategy(tagName),
                                               OpeningContext(ps, st, tagName),
                                               st.cs))

\* the branch "i % 4 === 2" for the name of an opening tag
OpeningTagStep(ps, st) == OpeningTagNamed(ps, st, ToLowerCase(ps[st.i]))

\* the branch "i % 4 === 0" for a text part that is not blank
TextStep(ps, st) ==
    [st EXCEPT !.i = @ + 1,
               !.segments = Append(@, MakeSegment(ps[st.i], st.currentStyle))]

\* which branch of the loop body the part at index k takes
PartKind(ps, k) ==
    LET role == (k - 1) % 4
    IN  IF ps[k] = <<>> THEN "empty"
        ELSE IF role = 1 /\ ps[k] = SLASH THEN "closing"
        ELSE IF role = 2 /\ ps[k - 1] # SLASH THEN "opening"
        ELSE IF role = 0 /\ Trim(ps[k]) # <<>> THEN "text"
        ELSE "none"

\* "continue", and the end of an iteration no branch acted in
NextPart(st) == [st EXCEPT !.i = @ + 1]

\* the branch of the loop body for a part of a given kind
BranchOf(ps, st, kind) ==
    IF kind = "closing" THEN ClosingTagStep(ps, st)
    ELSE IF kind = "opening" THEN OpeningTagStep(ps, st)
    ELSE IF kind = "text" THEN TextStep(ps, st)
    ELSE NextPart(st)

\* the body of the for loop of parseHTML
LoopBody(ps, st) == BranchOf(ps, st, PartKind(ps, st.i))

\* the locals of parseHTML when the loop is entered
InitialLocals(h, cs) ==
    [i |-> 1, currentStyle |-> getDefaultStyle, styleStack |-> << getDefaultStyle >>,
     segments |-> <<>>, errors |-> validateHTML(h),
     cs |-> resetCompositeState(cs, FAMILY), threw |-> FALSE]

\* a catch block that returns what the scan had collected: what the
\* fallback result (C10) rests on
CaughtResult_NoFallback(h) ==
    [segments |-> <<>>, errors |-> validateHTML(h) \o << Err("Parse error", <<>>) >>]

\* the ParseResult of the catch block
CaughtResult(h) ==
    [segments |-> << MakeSegment(h, getDefaultStyle) >>,
     errors |-> << Err("Parse error", <<>>) >>]

\* the ParseResult of a scan that came to its end
ScanResult(h, segs, errs) ==
    [segments |-> analyzeAndAssignSpacing(segs, h), errors |-> errs]

RECURSIVE RunLoop(_, _)
\* the for loop of parseHTML, left at its end or by a throw
RunLoop(ps, st) ==
    IF st.threw \/ st.i > Len(ps) THEN st ELSE RunLoop(ps, LoopBody(ps, st))

\* parseHTML(h) as the first call in a fresh process
ParseFresh(h) ==
    LET st == RunLoop(SplitByTagPattern(h), InitialLocals(h, EmptyCompositeState))
    IN  IF st.threw THEN CaughtResult(h)
        ELSE ScanResult(h, st.segments, st.errors)

\* ------------------------------------------------------------------------
\* TextLayoutEngine
\* ------------------------------------------------------------------------
\* Lengths are integers, one unit a thousandth of a pixel, so that the
\* factors 0.6, 1.15, 1.05 and 1.4 of the source are exact.  The engine is
\* the one built with default options where no document exists (Node):
\* measureText is then StyleHelpers.measureTextFallback.  No segment of
\* the model carries a verticalOffset, which reads as 0.

Px(n) == n * 1000

Math_max(a, b) == IF a >= b THEN a ELSE b

Math_min(a, b) == IF a <= b THEN a ELSE b

\* the options of the constructor, at their defaults
LAYOUT_FONT_SIZE == 14
startX == Px(10)
startY == Px(30)
lineHeight == LAYOUT_FONT_SIZE * 1400
DEFAULT_WRAP_WIDTH == Px(400)

TAG_H4 == <<"h", "4">>
NoHeading == <<>>

\* inverseHeadingSizes, for the font sizes that are whole pixels
inverseHeadingSizes(fontSize) ==
    IF fontSize = 32 THEN TAG_H1
    ELSE IF fontSize = 24 THEN TAG_H2
    ELSE IF fontSize = 16 THEN TAG_H4
    ELSE NoHeading

\* StyleHelpers.measureTextFallback
measureTextFallback(text, style, baseFontSize) ==
    LET fontSize == IF style.fontSize # 0 THEN style.fontSize ELSE baseFontSize
        bold     == IF style.fontWeight = "bold" THEN 115 ELSE 100
        italic   == IF style.fontStyle = "italic" THEN 105 ELSE 100
        charWidth == (fontSize * 600 * bold * italic) \div 10000
    IN  [width |-> Len(text) * charWidth, height |-> Px(fontSize)]

\* TextLayoutEngine.measureText without a canvas
measureText(text, style) == measureTextFallback(text, style, LAYOUT_FONT_SIZE)

\* StyleHelpers.isUnstyledSegment
isUnstyledSegment(segment) ==
    /\ segment.fontWeight = "normal"
    /\ segment.fontStyle = "normal"
    /\ segment.textDecoration = "none"
    /\ (segment.color = <<>> \/ ToLowerCase(segment.color) = BLACK)

\* StyleHelpers.isHeadingStyle
isHeadingStyle(segment) ==
    /\ segment.fontWeight = "bold"
    /\ segment.fontSize # 0
    /\ inverseHeadingSizes(segment.fontSize) # NoHeading

\* StyleHelpers.getHeadingType
getHeadingType(segment) ==
    IF segment.fontSize # 0 THEN inverseHeadingSizes(segment.fontSize) ELSE NoHeading

\* TextLayoutEngine.getHeadingSpacing: (headingSizes[type] || 0) / 2
getHeadingSpacing(headingType) ==
    IF headingType \in {TAG_H1, TAG_H2, TAG_H4}
    THEN headingSizes(headingType) * 500
    ELSE 0

RECURSIVE isEndOfHeadingBlockFrom(_, _, _)
\* the loop of isEndOfHeadingBlock from the segment at position j
isEndOfHeadingBlockFrom(segs, j, currentHeadingType) ==
    IF j > Len(segs) THEN TRUE
    ELSE IF segs[j].text = NEWLINE
         THEN isEndOfHeadingBlockFrom(segs, j + 1, currentHeadingType)
    ELSE IF ~isHeadingStyle(segs[j]) THEN TRUE
    ELSE getHeadingType(segs[j]) # currentHeadingType

\* TextLayoutEngine.isEndOfHeadingBlock
isEndOfHeadingBlock(segs, currentIndex, currentHeadingType) ==
    isEndOfHeadingBlockFrom(segs, currentIndex + 1, currentHeadingType)

\* TextLayoutEngine.hasSharedParentStyling
hasSharedParentStyling(current, next) ==
    LET weight(s) == s.fontWeight
        colour(s) == IF s.color # <<>> THEN s.color ELSE BLACK
        size(s)   == IF s.fontSize # 0 THEN s.fontSize ELSE 14
    IN  \/ (weight(current) = weight(next) /\ weight(current) # "normal")
        \/ (colour(current) = colour(next) /\ colour(current) # BLACK)
        \/ (size(current) = size(next) /\ size(current) # 14)

\* an indentation that does not grow with the level: what the agreement
\* of the two indentations (C16) rests on
calculateListIndentation_Flat(nestingLevel) ==
    IF nestingLevel <= 0 THEN 0 ELSE Px(20)

\* ListHelpers.calculateListIndentation
calculateListIndentation(nestingLevel) ==
    IF nestingLevel <= 0 THEN 0 ELSE Px(20) + (nestingLevel - 1) * Px(20)

\* "let indentationX = 0; if (segment.isListItem && segment.listNestingLevel)"
indentationX(segment) ==
    IF segment.isListItem /\ segment.listNestingLevel # 0
    THEN Px(20) + (segment.listNestingLevel - 1) * Px(20)
    ELSE 0

RECURSIVE SplitBySpaceFrom(_, _, _)
\* String.prototype.split(' ') from position p, with the word begun at q
SplitBySpaceFrom(s, q, p) ==
    IF p > Len(s) THEN << SubSeq(s, q, Len(s)) >>
    ELSE IF s[p] = " "
         THEN << SubSeq(s, q, p - 1) >> \o SplitBySpaceFrom(s, p + 1, p + 1)
    ELSE SplitBySpaceFrom(s, q, p + 1)

SplitBySpace(s) == SplitBySpaceFrom(s, 1, 1)

\* { ...segment, text, x, y, width, height }
PositionedSegment(segment, text, x, y, measurement) ==
    [segment EXCEPT !.text = text]
        @@ [x |-> x, y |-> y, width |-> measurement.width,
            height |-> measurement.height]

\* the cursor of layoutSegments: the loop index (plus one), currentX,
\* currentY and the boxes pushed so far
InitialCursor ==
    [i |-> 1, currentX |-> startX, currentY |-> startY, positioned |-> <<>>]

\* "if (segment.text === '\n')": an explicit line break
LineBreakStep(cur) ==
    [cur EXCEPT !.i = @ + 1, !.currentX = startX, !.currentY = @ + lineHeight]

\* a wrap test that looks at the width alone: what the segment that stays
\* at the line start (C13) rests on
shouldWrapSegment_WidthOnly(cur, measurement, wrapWidth) ==
    cur.currentX + measurement.width > wrapWidth

\* "segmentWouldExceedWidth && currentX > this.startX"
shouldWrapSegment(cur, measurement, wrapWidth) ==
    /\ cur.currentX + measurement.width > wrapWidth
    /\ cur.currentX > startX

\* "if (shouldWrapSegment)": the segment goes to the next line
WrapSegment(cur, measurement, wrapWidth) ==
    IF shouldWrapSegment(cur, measurement, wrapWidth)
    THEN [cur EXCEPT !.currentX = startX,
                     !.currentY = @ + Math_max(lineHeight, measurement.height)]
    ELSE cur

\* "measurement.width > wrapWidth && segment.text.includes(' ')"
needsWordWrap(segment, measurement, wrapWidth) ==
    measurement.width > wrapWidth /\ Includes(segment.text, <<" ">>)

\* a test of the accumulated line without the next word: what the greedy
\* fill (C14) rests on
lineIsFull_WithoutWord(segment, testLine, currentLine, wrapWidth) ==
    measureText(currentLine, segment).width > wrapWidth /\ currentLine # <<>>

\* "testMeasurement.width > wrapWidth && currentLine"
lineIsFull(segment, testLine, currentLine, wrapWidth) ==
    measureText(testLine, segment).width > wrapWidth /\ currentLine # <<>>

\* a space as wide as it is measured, whatever the spacing context: what
\* the widths of the spacing (C27) rest on
spaceWidthAfter_Measured(segment, shared, floor) ==
    measureText(<<" ">>, segment).width

\* the width of the space after a segment: floor is the least width
\* between two styled segments that share no parent styling
spaceWidthAfter(segment, shared, floor) ==
    LET spaceWidth == measureText(<<" ">>, segment).width
    IN  IF segment.spacingContext = "text-to-tag" THEN Math_max(spaceWidth, Px(8))
        ELSE IF segment.spacingContext = "tag-to-tag"
             THEN IF shared THEN Math_min(spaceWidth, Px(5))
                  ELSE Math_max(spaceWidth, floor)
        ELSE IF segment.spacingContext = "tag-to-text" THEN Math_min(spaceWidth, Px(6))
        ELSE IF segment.spacingContext = "list-prefix" THEN Px(5)
        ELSE spaceWidth

\* "currentX += spaceWidth" under "if (segment.hasSpaceAfter)"
AddSpace(cur, segment, shared, floor) ==
    IF segment.hasSpaceAfter
    THEN [cur EXCEPT !.currentX = @ + spaceWidthAfter(segment, shared, floor)]
    ELSE cur

\* "if (isHeading) { ... currentY += additionalSpacing }"
AddHeadingSpacing(cur, segs, k, segment) ==
    LET headingType == getHeadingType(segment)
    IN  IF /\ isHeadingStyle(segment)
           /\ headingType # NoHeading
           /\ isEndOfHeadingBlock(segs, k, headingType)
        THEN [cur EXCEPT !.currentY = @ + getHeadingSpacing(headingType)]
        ELSE cur

\* the next segment of the word-wrapped branch: the first later one whose
\* text is not blank
NextNonBlank(segs, k) ==
    LET later == { j \in (k + 1)..Len(segs) : Trim(segs[j].text) # <<>> }
    IN  IF later = {} THEN 0 ELSE CHOOSE j \in later : \A m \in later : j <= m

\* a full line pushed with the next line begun empty, the word that did
\* not fit left out: what the completeness of the wrap (C29) rests on
PushFullLine_DropWord(acc, segment, word) ==
    [currentLine |-> <<>>,
     currentX |-> startX,
     currentY |-> acc.currentY + lineHeight,
     positioned |->
        Append(acc.positioned,
               PositionedSegment(segment, acc.currentLine,
                                 acc.currentX + indentationX(segment), acc.currentY,
                                 measureText(acc.currentLine, segment)))]

\* the line of words pushed as a box when the next word does not fit
PushFullLine(acc, segment, word) ==
    [currentLine |-> word,
     currentX |-> startX,
     currentY |-> acc.currentY + lineHeight,
     positioned |->
        Append(acc.positioned,
               PositionedSegment(segment, acc.currentLine,
                                 acc.currentX + indentationX(segment), acc.currentY,
                                 measureText(acc.currentLine, segment)))]

\* one word of the loop over words
WordStep(acc, segment, word, testLine, wrapWidth) ==
    IF lineIsFull(segment, testLine, acc.currentLine, wrapWidth)
    THEN PushFullLine(acc, segment, word)
    ELSE [acc EXCEPT !.currentLine = testLine]

RECURSIVE WrapWords(_, _, _, _, _)
\* "for (let i = 0; i < words.length; i++)" from the word at position k
WrapWords(acc, segment, words, k, wrapWidth) ==
    IF k > Len(words) THEN acc
    ELSE IF words[k] = <<>> THEN WrapWords(acc, segment, words, k + 1, wrapWidth)
    ELSE WrapWords(WordStep(acc, segment, words[k],
                            IF acc.currentLine # <<>>
                            THEN acc.currentLine \o <<" ">> \o words[k]
                            ELSE words[k],
                            wrapWidth),
                   segment, words, k + 1, wrapWidth)

\* "if (currentLine)": the remaining text, pushed as the last box
PushRemainingLine(acc, segs, k, segment, lineMeasurement) ==
    LET offsetX == IF /\ isUnstyledSegment(segment)
                      /\ ~segment.isListItem
                      /\ acc.currentX = startX
                   THEN Px(2) ELSE 0
        next    == NextNonBlank(segs, k)
        pushed  ==
            [i |-> k, currentX |-> acc.currentX + lineMeasurement.width,
             currentY |-> acc.currentY,
             positioned |->
                Append(acc.positioned,
                       PositionedSegment(segment, acc.currentLine,
                                         acc.currentX + indentationX(segment) + offsetX,
                                         acc.currentY, lineMeasurement))]
    IN  AddSpace(pushed, segment,
                 next # 0 /\ hasSharedParentStyling(segment, segs[IF next = 0 THEN k ELSE next]),
                 Px(10))

\* the word-wrapped branch up to its own heading spacing
WordWrapped(acc, segs, k, segment) ==
    AddHeadingSpacing(
        IF acc.currentLine # <<>>
        THEN PushRemainingLine(acc, segs, k, segment,
                               measureText(acc.currentLine, segment))
        ELSE [i |-> k, currentX |-> acc.currentX, currentY |-> acc.currentY,
              positioned |-> acc.positioned],
        segs, k, segment)

\* "if (measurement.width > wrapWidth && segment.text.includes(' '))"
WordWrapBranch(cur, segs, segment, wrapWidth) ==
    WordWrapped(WrapWords([currentLine |-> <<>>, currentX |-> cur.currentX,
                           currentY |-> cur.currentY, positioned |-> cur.positioned],
                          segment, SplitBySpace(segment.text), 1, wrapWidth),
                segs, cur.i, segment)

\* the else branch: the segment placed as one box
SingleBoxBranch(cur, segs, segment, measurement, wrapWidth) ==
    LET hasWrapped == /\ cur.currentX > startX
                      /\ cur.currentX + measurement.width > wrapWidth
        segmentLineHeight == Math_max(lineHeight, measurement.height)
        x == IF hasWrapped THEN startX ELSE cur.currentX
        y == IF hasWrapped THEN cur.currentY + segmentLineHeight ELSE cur.currentY
        offsetX == IF isUnstyledSegment(segment) /\ ~segment.isListItem /\ ~hasWrapped
                   THEN Px(2) ELSE 0
        pushed ==
            [i |-> cur.i, currentX |-> x + measurement.width, currentY |-> y,
             positioned |->
                Append(cur.positioned,
                       PositionedSegment(segment, segment.text,
                                         x + offsetX + indentationX(segment),
                                         y + (segmentLineHeight - measurement.height),
                                         measurement))]
    IN  AddSpace(pushed, segment,
                 cur.i < Len(segs)
                    /\ hasSharedParentStyling(segment, segs[IF cur.i < Len(segs)
                                                            THEN cur.i + 1 ELSE cur.i]),
                 Px(7))

\* one of the two branches, for the cursor after the segment-level wrap
PlaceBranch(cur, segs, segment, measurement, wrapWidth) ==
    IF needsWordWrap(segment, measurement, wrapWidth)
    THEN WordWrapBranch(cur, segs, segment, wrapWidth)
    ELSE SingleBoxBranch(cur, segs, segment, measurement, wrapWidth)

\* the body of the loop for a segment that is not a line break
PlaceMeasured(cur, segs, segment, measurement, wrapWidth) ==
    LET placed == AddHeadingSpacing(
                      PlaceBranch(WrapSegment(cur, measurement, wrapWidth),
                                  segs, segment, measurement, wrapWidth),
                      segs, cur.i, segment)
    IN  [placed EXCEPT !.i = @ + 1]

PlaceStep(cur, segs, wrapWidth) ==
    PlaceMeasured(cur, segs, segs[cur.i], measureText(segs[cur.i].text, segs[cur.i]),
                  wrapWidth)

\* the body of the for loop of layoutSegments
LayoutBody(cur, segs, wrapWidth) ==
    IF segs[cur.i].text = NEWLINE THEN LineBreakStep(cur)
    ELSE PlaceStep(cur, segs, wrapWidth)

RECURSIVE LayoutLoop(_, _, _)
LayoutLoop(cur, segs, wrapWidth) ==
    IF cur.i > Len(segs) THEN cur
    ELSE LayoutLoop(LayoutBody(cur, segs, wrapWidth), segs, wrapWidth)

\* TextLayoutEngine.layoutSegments
layoutSegments(segs, wrapWidth) == LayoutLoop(InitialCursor, segs, wrapWidth).positioned

\* ------------------------------------------------------------------------
\* The inputs handed to parseHTML
\* ------------------------------------------------------------------------

MaxWs == 2
MaxTokens == 3
MaxListTokens == 2
MaxItems == 2

OpenTag(name, attributes) == <<"<">> \o name \o attributes \o <<">">>

CloseTag(name) == <<"<", "/">> \o name \o <<">">>

RECURSIVE Spaces(_)
Spaces(n) == IF n = 0 THEN <<>> ELSE <<" ">> \o Spaces(n - 1)

TEXT_X == <<"x">>

\* the attribute text  style='color:red'  with its leading blank
ATTR_STYLE_RED ==
    <<" ">> \o STYLE_EQ \o <<"'">> \o PROP_COLOR \o <<":", "r", "e", "d", "'">>

\* <t1>A</t1>, n blanks, <t2 attrs>B</t2>
PairInput(t1, a, n, t2, attrs, b) ==
    OpenTag(t1, <<>>) \o a \o CloseTag(t1) \o Spaces(n)
        \o OpenTag(t2, attrs) \o b \o CloseTag(t2)

PairTexts == {<<"A">>, <<"b">>}

PairInputs ==
    { PairInput(t1, a, n, t2, attrs, b) :
        t1 \in {TAG_B, TAG_I}, a \in PairTexts, n \in 0..MaxWs,
        t2 \in {TAG_I, TAG_SPAN}, attrs \in {<<>>, ATTR_STYLE_RED}, b \in PairTexts }

\* every concatenation of at most n tokens
TokenStrings(tokens, n) ==
    { Concat(ts) : ts \in UNION { [1..k -> tokens] : k \in 0..n } }

\* text, tags of inline elements, an unregistered tag and the custom tag
GeneralTokens ==
    { TEXT_X, OpenTag(TAG_B, <<>>), CloseTag(TAG_B), CloseTag(TAG_I),
      OpenTag(TAG_UNKNOWN, <<>>), CloseTag(TAG_UNKNOWN), OpenTag(TAG_CUSTOM, <<>>) }

TokenInputs == TokenStrings(GeneralTokens, MaxTokens)

\* list containers opened and closed in any order
ListTokens ==
    { OpenTag(ORDERED_LIST, <<>>), CloseTag(ORDERED_LIST),
      OpenTag(UNORDERED_LIST, <<>>), CloseTag(UNORDERED_LIST) }

ListTokenInputs == TokenStrings(ListTokens, MaxListTokens)

ListItem(content) == OpenTag(LIST_ITEM, <<>>) \o content \o CloseTag(LIST_ITEM)

\* <T><li>c1</li>...<li>cm</li></T>
ListOf(T, contents) ==
    OpenTag(T, <<>>) \o Concat([k \in 1..Len(contents) |-> ListItem(contents[k])])
        \o CloseTag(T)

ListTypes == {ORDERED_LIST, UNORDERED_LIST}

\* a list of 1..MaxItems items of plain text
InnerLists ==
    { ListOf(T, [k \in 1..m |-> TEXT_X]) : T \in ListTypes, m \in 1..MaxItems }

\* a list of 1..MaxItems items, at most one of which holds a nested list
OuterLists ==
    { ListOf(T, [k \in 1..m |-> IF k = j THEN TEXT_X \o inner ELSE TEXT_X]) :
        T \in ListTypes, m \in 1..MaxItems, j \in 0..MaxItems, inner \in InnerLists }

\* two sibling lists
SiblingLists == { l1 \o l2 : l1 \in InnerLists, l2 \in InnerLists }

\* a list inside an emphasising element
EmphasisedLists ==
    { OpenTag(t[1], t[2]) \o inner \o CloseTag(t[1]) :
        t \in { <<TAG_B, <<>> >>, <<TAG_U, <<>> >>, <<TAG_H1, <<>> >>,
                <<TAG_P, <<>> >>, <<TAG_SPAN, ATTR_STYLE_RED>> },
        inner \in InnerLists }

\* a list left open inside its first item
UnclosedLists ==
    { OpenTag(T, <<>>) \o OpenTag(LIST_ITEM, <<>>) \o TEXT_X : T \in ListTypes }

\* a list whose only item is empty, alone and behind a text
EmptyItemLists ==
    { lead \o ListOf(T, << <<>> >>) : lead \in {<<>>, TEXT_X}, T \in ListTypes }

\* a list item in no list, alone and behind a closed list
BareItems ==
    { lead \o ListItem(TEXT_X) :
        lead \in {<<>>, ListOf(UNORDERED_LIST, << TEXT_X >>)} }

ListInputs ==
    OuterLists \cup SiblingLists \cup EmphasisedLists \cup UnclosedLists
        \cup EmptyItemLists \cup BareItems

\* <t1>x<t2 attrs>x<br>x</t2>x</t1>x, with and without the <br>
NestedInputs ==
    { OpenTag(t1, <<>>) \o TEXT_X \o OpenTag(t2[1], t2[2]) \o TEXT_X \o br \o TEXT_X
        \o CloseTag(t2[1]) \o TEXT_X \o CloseTag(t1) \o TEXT_X :
        t1 \in {TAG_B, TAG_P, TAG_H2},
        t2 \in { <<TAG_I, <<>> >>, <<TAG_EM, <<>> >>, <<TAG_STRONG, <<>> >>,
                 <<TAG_SPAN, ATTR_STYLE_RED>> },
        br \in {<<>>, OpenTag(TAG_BR, <<>>)} }

\* style='color:red;<declaration>' with its leading blank
StyleRedAnd(declaration) ==
    <<" ">> \o STYLE_EQ \o <<"'">> \o PROP_COLOR \o <<":", "r", "e", "d", ";">>
        \o declaration \o <<"'">>

\* a font-weight outside the valid values and a property outside the
\* supported ones
DECL_BAD_WEIGHT == PROP_FONT_WEIGHT \o <<":", "x">>
DECL_MARGIN == <<"m","a","r","g","i","n",":","x">>

\* href='<url>' with its leading blank
AttrHref(url) == <<" ">> \o HREF_EQ \o <<"'">> \o url \o <<"'">>

HREF_FRAGMENT == <<"#", "x">>

\* an attribute text the pattern of the list attributes does not match, and
\* one it matches
ATTR_MALFORMED == <<" ", "x">>
ATTR_ID == <<" ", "i", "d", "=", "'", "x", "'">>

SpanAttributes ==
    {ATTR_STYLE_RED, StyleRedAnd(DECL_BAD_WEIGHT), StyleRedAnd(DECL_MARGIN)}

HrefAttributes ==
    {<<>>, AttrHref(<<>>), AttrHref(<<" ">>), AttrHref(TEXT_X), AttrHref(HREF_FRAGMENT)}

ListAttributes == {<<>>, ATTR_MALFORMED, ATTR_ID}

\* a span or a link with attributes, alone and inside a bold element, and a
\* one-item list with attributes on the container and on the item
AttributeInputs ==
    { lead[1] \o OpenTag(t[1], t[2]) \o TEXT_X \o CloseTag(t[1]) \o lead[2] :
        lead \in { << <<>>, <<>> >>, << OpenTag(TAG_B, <<>>), CloseTag(TAG_B) >> },
        t \in ({TAG_SPAN} \X SpanAttributes) \cup ({TAG_A} \X HrefAttributes) }
    \cup
    { OpenTag(T, a) \o OpenTag(LIST_ITEM, b) \o TEXT_X \o CloseTag(LIST_ITEM)
        \o CloseTag(T) :
        T \in ListTypes, a \in ListAttributes, b \in ListAttributes }

\* <br>, <br/> or </br> between two texts, alone and inside an element
BreakInputs ==
    { lead[1] \o TEXT_X \o br \o TEXT_X \o lead[2] :
        lead \in { << <<>>, <<>> >>, << OpenTag(TAG_B, <<>>), CloseTag(TAG_B) >>,
                   << OpenTag(TAG_SPAN, ATTR_STYLE_RED), CloseTag(TAG_SPAN) >> },
        br \in { OpenTag(TAG_BR, <<>>), OpenTag(TAG_BR, SLASH), CloseTag(TAG_BR) } }

Inputs ==
    PairInputs \cup TokenInputs \cup ListTokenInputs \cup ListInputs \cup NestedInputs
        \cup AttributeInputs \cup BreakInputs

\* ------------------------------------------------------------------------
\* The segments handed to layoutSegments
\* ------------------------------------------------------------------------

MaxLayoutSegments == 2
MaxListLevel == 3

\* a segment as the parser and the spacing analysis leave it
AnnotatedSegment(text, style, hasSpaceAfter, spacingContext) ==
    [MakeSegment(text, style) EXCEPT !.hasSpaceAfter = hasSpaceAfter,
                                     !.spacingContext = spacingContext]

BoldStyle == [getDefaultStyle EXCEPT !.fontWeight = "bold"]

ItalicStyle == [getDefaultStyle EXCEPT !.fontStyle = "italic"]

HeadingOneStyle == [getDefaultStyle EXCEPT !.fontWeight = "bold", !.fontSize = 32]

ListItemStyle(level) ==
    [getDefaultStyle EXCEPT !.isListItem = TRUE, !.listNestingLevel = level,
                            !.listType = IF level = 0 THEN NoListType
                                         ELSE UNORDERED_LIST]

WORDS_2 == <<"a", "b", " ", "c", "d">>
WORDS_3 == <<"a", "b", " ", "c", "d", " ", "e", "f">>
WORDS_LONG == <<"a", "b", "c", "d", "e", "f", "g", "h", " ", "i", "j">>
WORDS_GAP == <<"a", "b", " ", " ", "c", "d", "e", "f">>
WORDS_PADDED == <<" ", "a", "b", " ", "c", "d", "e", "f", " ">>

LayoutSegmentChoices ==
    { AnnotatedSegment(TEXT_X, getDefaultStyle, FALSE, "undefined"),
      AnnotatedSegment(WORDS_2, getDefaultStyle, TRUE, "text-to-tag"),
      AnnotatedSegment(WORDS_3, getDefaultStyle, TRUE, "text-to-text"),
      AnnotatedSegment(WORDS_LONG, getDefaultStyle, FALSE, "text-to-text"),
      AnnotatedSegment(WORDS_GAP, getDefaultStyle, FALSE, "text-to-tag"),
      AnnotatedSegment(WORDS_PADDED, getDefaultStyle, FALSE, "text-to-text"),
      AnnotatedSegment(WORDS_2, BoldStyle, TRUE, "tag-to-tag"),
      AnnotatedSegment(TEXT_X, BoldStyle, TRUE, "tag-to-text"),
      AnnotatedSegment(WORDS_3, ItalicStyle, TRUE, "tag-to-tag"),
      AnnotatedSegment(TEXT_X, HeadingOneStyle, FALSE, "tag-to-tag"),
      AnnotatedSegment(WORDS_2, HeadingOneStyle, FALSE, "tag-to-text"),
      AnnotatedSegment(WORDS_3, ListItemStyle(2), FALSE, "text-to-text"),
      AnnotatedSegment(NEWLINE, getDefaultStyle, FALSE, "undefined") }
    \cup { AnnotatedSegment(TEXT_X, ListItemStyle(level), TRUE, "list-prefix") :
                level \in 0..MaxListLevel }

\* sequences of at most MaxLayoutSegments segments
SegmentSequences ==
    UNION { [1..k -> LayoutSegmentChoices] : k \in 0..MaxLayoutSegments }

\* a heading element and what follows its closing tag
HeadingInputs ==
    { before \o OpenTag(h, <<>>) \o TEXT_X \o CloseTag(h) \o after :
        before \in {<<>>, TEXT_X},
        h \in {TAG_H1, TAG_H2},
        after \in { <<>>, TEXT_X, Spaces(1), Spaces(1) \o TEXT_X,
                    OpenTag(TAG_B, <<>>) \o TEXT_X \o CloseTag(TAG_B),
                    OpenTag(TAG_P, <<>>) \o TEXT_X \o CloseTag(TAG_P),
                    OpenTag(TAG_H1, <<>>) \o TEXT_X \o CloseTag(TAG_H1),
                    OpenTag(TAG_H2, <<>>) \o TEXT_X \o CloseTag(TAG_H2),
                    OpenTag(TAG_BR, <<>>) \o TEXT_X,
                    ListOf(UNORDERED_LIST, << TEXT_X >>) } }

\* the documents whose parse results are laid out
LayoutHtmlInputs == HeadingInputs \cup InnerLists \cup OuterLists

\* maxWidth: two narrow widths and the default of "maxWidth ?? 400"
WrapWidths == {Px(40), Px(60), DEFAULT_WRAP_WIDTH}

\* ------------------------------------------------------------------------
\* The parser as a state machine
\* ------------------------------------------------------------------------

VARIABLES
    pc,              \* "idle": no call; "scan": in the loop; "done": returning
    html,            \* the argument of parseHTML
    parts,           \* html.split(tagPattern)
    i,               \* index of the part at hand (loop index + 1)
    currentStyle,
    styleStack,
    segments,
    errors,
    compositeState,  \* CompositeHelpers.stacks and .counters, static
    result,          \* the ParseResult returned
    staleListState,  \* history: the call found list state of an earlier call
    layout,          \* the call of layoutSegments: its arguments and locals
    passes           \* the calls of parseHTML whose tag handling interleaves

vars == <<pc, html, parts, i, currentStyle, styleStack, segments, errors,
          compositeState, result, staleListState, layout, passes>>

NoResult == [segments |-> <<>>, errors |-> <<>>]

\* two calls of parseHTML in one process, and a call that is not running
Passes == {"A", "B"}

NoPass ==
    [pc |-> "idle", html |-> <<>>, parts |-> <<>>,
     st |-> [i |-> 0, currentStyle |-> getDefaultStyle, styleStack |-> <<>>,
             segments |-> <<>>, errors |-> <<>>, cs |-> EmptyCompositeState,
             threw |-> FALSE]]

\* no call of layoutSegments is running
NoLayout ==
    [pc |-> "idle", html |-> <<>>, segments |-> <<>>, wrapWidth |-> 0,
     i |-> 0, currentX |-> 0, currentY |-> 0, positioned |-> <<>>]

Init ==
    /\ pc = "idle"
    /\ html = <<>>
    /\ parts = <<>>
    /\ i = 0
    /\ currentStyle = getDefaultStyle
    /\ styleStack = <<>>
    /\ segments = <<>>
    /\ errors = <<>>
    /\ compositeState = EmptyCompositeState
    /\ result = NoResult
    /\ staleListState = FALSE
    /\ layout = NoLayout
    /\ passes = [p \in Passes |-> NoPass]

\* the locals of the running call as a record, and their assignment
Locals ==
    [i |-> i, currentStyle |-> currentStyle, styleStack |-> styleStack,
     segments |-> segments, errors |-> errors, cs |-> compositeState,
     threw |-> FALSE]

Assign(st) ==
    /\ i' = st.i
    /\ currentStyle' = st.currentStyle
    /\ styleStack' = st.styleStack
    /\ segments' = st.segments
    /\ errors' = st.errors
    /\ compositeState' = st.cs

InLoop == pc = "scan" /\ i <= Len(parts)

\* the list family has a nesting stack or counters left
HoldsListState(cs) ==
    \/ getCompositeStack(cs, FAMILY) # <<>>
    \/ (FAMILY \in DOMAIN cs.counters /\ DOMAIN cs.counters[FAMILY] # {})

\* parseHTML(h) up to the entry of the loop
ParseHTML(h) ==
    /\ pc = "idle"
    /\ pc' = "scan"
    /\ html' = h
    /\ parts' = SplitByTagPattern(h)
    /\ Assign(InitialLocals(h, compositeState))
    /\ staleListState' = HoldsListState(compositeState)
    /\ UNCHANGED <<result, layout, passes>>

\* the iteration ends with the locals st and the loop goes on
Proceed(st) ==
    /\ ~st.threw
    /\ Assign(st)
    /\ UNCHANGED <<pc, html, parts, result, staleListState, layout, passes>>

\* the iteration is left by a throw: the catch block returns
Caught(st) ==
    /\ st.threw
    /\ pc' = "done"
    /\ result' = CaughtResult(html)
    /\ compositeState' = st.cs
    /\ UNCHANGED <<html, parts, i, currentStyle, styleStack, segments, errors,
                   staleListState, layout, passes>>

\* "if (!part) continue"
SkipEmptyPart ==
    /\ InLoop /\ PartKind(parts, i) = "empty"
    /\ Proceed(NextPart(Locals))

\* a closing tag with a strategy that returns
ClosingTag ==
    /\ InLoop /\ PartKind(parts, i) = "closing"
    /\ getStrategy(ToLowerCase(parts[i + 1])) # "none"
    /\ Proceed(ClosingTagStep(parts, Locals))

\* a closing tag without a strategy
UnsupportedClosingTag ==
    /\ InLoop /\ PartKind(parts, i) = "closing"
    /\ getStrategy(ToLowerCase(parts[i + 1])) = "none"
    /\ Proceed(UnsupportedStep(Locals, "Unsupported closing tag",
                               ToLowerCase(parts[i + 1])))

\* an opening tag with a strategy that returns
OpeningTag ==
    /\ InLoop /\ PartKind(parts, i) = "opening"
    /\ getStrategy(ToLowerCase(parts[i])) # "none"
    /\ Proceed(OpeningTagStep(parts, Locals))

\* an opening tag without a strategy
UnsupportedTag ==
    /\ InLoop /\ PartKind(parts, i) = "opening"
    /\ getStrategy(ToLowerCase(parts[i])) = "none"
    /\ Proceed(UnsupportedStep(Locals, "Unsupported tag", ToLowerCase(parts[i])))

\* a text part that is not blank
TextContent ==
    /\ InLoop /\ PartKind(parts, i) = "text"
    /\ Proceed(TextStep(parts, Locals))

\* a part no branch acts on: the name of a closing tag, the attributes of
\* a tag, a blank text
PassPart ==
    /\ InLoop /\ PartKind(parts, i) = "none"
    /\ Proceed(NextPart(Locals))

\* strategy.parse throws: the catch block returns
StrategyThrows ==
    /\ InLoop /\ PartKind(parts, i) \in {"closing", "opening"}
    /\ Caught(LoopBody(parts, Locals))

\* the loop has ended: spacing analysis and return
FinishParse ==
    /\ pc = "scan" /\ i > Len(parts)
    /\ pc' = "done"
    /\ result' = ScanResult(html, segments, errors)
    /\ UNCHANGED <<html, parts, i, currentStyle, styleStack, segments, errors,
                   compositeState, staleListState, layout, passes>>

\* the call has returned: its locals are gone, the static state stays
Return ==
    /\ pc = "done"
    /\ pc' = "idle"
    /\ html' = <<>>
    /\ parts' = <<>>
    /\ i' = 0
    /\ currentStyle' = getDefaultStyle
    /\ styleStack' = <<>>
    /\ segments' = <<>>
    /\ errors' = <<>>
    /\ result' = NoResult
    /\ staleListState' = FALSE
    /\ UNCHANGED <<compositeState, layout, passes>>

Next ==
    \/ \E h \in Inputs : ParseHTML(h)
    \/ SkipEmptyPart
    \/ ClosingTag
    \/ UnsupportedClosingTag
    \/ OpeningTag
    \/ UnsupportedTag
    \/ TextContent
    \/ PassPart
    \/ StrategyThrows
    \/ FinishParse
    \/ Return

Spec == Init /\ [][Next]_vars

\* ------------------------------------------------------------------------
\* The layout engine as a state machine
\* ------------------------------------------------------------------------

\* the locals of the running call of layoutSegments, and their assignment
Cursor ==
    [i |-> layout.i, currentX |-> layout.currentX, currentY |-> layout.currentY,
     positioned |-> layout.positioned]

MoveCursor(cur) ==
    /\ layout' = [layout EXCEPT !.i = cur.i, !.currentX = cur.currentX,
                                !.currentY = cur.currentY,
                                !.positioned = cur.positioned]
    /\ UNCHANGED <<pc, html, parts, i, currentStyle, styleStack, segments, errors,
                   compositeState, result, staleListState, passes>>

InLayoutLoop == layout.pc = "place" /\ layout.i <= Len(layout.segments)

\* the segment at hand and its measurement
CurrentSegment == layout.segments[layout.i]

CurrentMeasurement == measureText(CurrentSegment.text, CurrentSegment)

\* the segment at hand is word-wrapped once the segment-level wrap is done
WordWrapsHere ==
    needsWordWrap(CurrentSegment, CurrentMeasurement, layout.wrapWidth)

\* layoutSegments(segs, maxWidth) up to the entry of the loop; h is the
\* document of the convert call that laid the segments out, if any
EnterLayout(h, segs, maxWidth) ==
    /\ layout.pc = "idle"
    /\ layout' = [pc |-> "place", html |-> h, segments |-> segs,
                  wrapWidth |-> maxWidth,
                  i |-> InitialCursor.i, currentX |-> InitialCursor.currentX,
                  currentY |-> InitialCursor.currentY,
                  positioned |-> InitialCursor.positioned]
    /\ UNCHANGED <<pc, html, parts, i, currentStyle, styleStack, segments, errors,
                   compositeState, result, staleListState, passes>>

\* HTMLToVegaLite.layoutSegments(segments, maxWidth)
LayoutSegments(segs, maxWidth) == EnterLayout(<<>>, segs, maxWidth)

\* HTMLToVegaLite.convert(h, { maxWidth }) up to the entry of the layout
\* loop, in a process that has parsed nothing before
Convert(h, maxWidth) ==
    /\ h # <<>>
    /\ EnterLayout(h, ParseFresh(h).segments, maxWidth)

\* a '\n' segment
LineBreak ==
    /\ InLayoutLoop /\ CurrentSegment.text = NEWLINE
    /\ MoveCursor(LineBreakStep(Cursor))

\* a segment wider than wrapWidth that holds a space: placed word by word
WordWrapSegment ==
    /\ InLayoutLoop /\ CurrentSegment.text # NEWLINE
    /\ WordWrapsHere
    /\ MoveCursor(PlaceStep(Cursor, layout.segments, layout.wrapWidth))

\* any other segment: placed as one box
PlaceSegment ==
    /\ InLayoutLoop /\ CurrentSegment.text # NEWLINE
    /\ ~WordWrapsHere
    /\ MoveCursor(PlaceStep(Cursor, layout.segments, layout.wrapWidth))

\* "return positioned"
LayoutReturn ==
    /\ layout.pc = "place" /\ layout.i > Len(layout.segments)
    /\ layout' = NoLayout
    /\ UNCHANGED <<pc, html, parts, i, currentStyle, styleStack, segments, errors,
                   compositeState, result, staleListState, passes>>

\* the segments laid out: any short sequence, and the parse results of the
\* heading and list documents
LayoutNext ==
    \/ \E segs \in SegmentSequences, w \in WrapWidths : LayoutSegments(segs, w)
    \/ \E h \in LayoutHtmlInputs, w \in WrapWidths : Convert(h, w)
    \/ LineBreak
    \/ WordWrapSegment
    \/ PlaceSegment
    \/ LayoutReturn

LayoutSpec == Init /\ [][LayoutNext]_vars

\* ------------------------------------------------------------------------
\* Interleaved parse passes
\* ------------------------------------------------------------------------
\* parseHTML is synchronous; the passes of this specification are calls
\* whose loop iterations interleave (a parse started from within another,
\* or calls on threads of one process).  Each pass has the locals of
\* parseHTML; CompositeHelpers.stacks and .counters are static and exist
\* once.  The field cs of a pass's locals is history: the store as the
\* pass's own last step left it.

\* the documents of the interleaved passes: a list of one plain item
ConcurrentInputs == { ListOf(T, << TEXT_X >>) : T \in ListTypes }

\* a pass with its own copy of the store: what the sharing of the list
\* state (C20) rests on
StoreSeenBy_OwnCopy(p) == passes[p].st.cs

\* the store a pass reads: the static maps of CompositeHelpers
StoreSeenBy(p) == compositeState

\* the locals of pass p with the store it reads
PassLocals(p) == [passes[p].st EXCEPT !.cs = StoreSeenBy(p)]

InPassLoop(p) == passes[p].pc = "scan" /\ passes[p].st.i <= Len(passes[p].parts)

PassPartKind(p) == PartKind(passes[p].parts, passes[p].st.i)

\* the iteration of pass p ends with the locals st
PassProceed(p, st) ==
    /\ ~st.threw
    /\ passes' = [passes EXCEPT ![p].st = st]
    /\ compositeState' = st.cs
    /\ UNCHANGED <<pc, html, parts, i, currentStyle, styleStack, segments, errors,
                   result, staleListState, layout>>

\* parseHTML(h) of pass p up to the entry of its loop
PassParseHTML(p, h) ==
    /\ passes[p].pc = "idle"
    /\ passes' = [passes EXCEPT
                    ![p] = [pc |-> "scan", html |-> h, parts |-> SplitByTagPattern(h),
                            st |-> InitialLocals(h, StoreSeenBy(p))]]
    /\ compositeState' = resetCompositeState(StoreSeenBy(p), FAMILY)
    /\ UNCHANGED <<pc, html, parts, i, currentStyle, styleStack, segments, errors,
                   result, staleListState, layout>>

\* pass p handles a closing or an opening tag
PassTag(p) ==
    /\ InPassLoop(p) /\ PassPartKind(p) \in {"closing", "opening"}
    /\ PassProceed(p, LoopBody(passes[p].parts, PassLocals(p)))

\* pass p handles a part that is no tag
PassOtherPart(p) ==
    /\ InPassLoop(p) /\ PassPartKind(p) \notin {"closing", "opening"}
    /\ PassProceed(p, LoopBody(passes[p].parts, PassLocals(p)))

\* pass p returns
PassReturn(p) ==
    /\ passes[p].pc = "scan" /\ passes[p].st.i > Len(passes[p].parts)
    /\ passes' = [passes EXCEPT ![p] = NoPass]
    /\ UNCHANGED <<pc, html, parts, i, currentStyle, styleStack, segments, errors,
                   compositeState, result, staleListState, layout>>

ConcurrentNext ==
    \E p \in Passes :
        \/ \E h \in ConcurrentInputs : PassParseHTML(p, h)
        \/ PassTag(p)
        \/ PassOtherPart(p)
        \/ PassReturn(p)

ConcurrentSpec == Init /\ [][ConcurrentNext]_vars

\* ------------------------------------------------------------------------
\* The input read as a document: its tags, the elements open at a position
\* ------------------------------------------------------------------------
\* These definitions read the document from the parts alone and use neither
\* the style stack nor the list state of the parser.

\* the part index of the name of the k-th tag
NamePart(k) == 4 * k - 1

TagName(ps, k) == ToLowerCase(ps[NamePart(k)])

TagIsClosing(ps, k) == ps[NamePart(k) - 1] = SLASH

TagAttributes(ps, k) == ps[NamePart(k) + 1]

\* the tags whose opening puts a style in effect until they are closed
OpensElement(name) == getStrategy(name) \notin {"none", "LineBreak"}

\* the index of the innermost open element with that name, 0 if none
InnermostOpen(open, name) ==
    LET ks == { k \in 1..Len(open) : open[k].name = name }
    IN  IF ks = {} THEN 0 ELSE CHOOSE k \in ks : \A m \in ks : m <= k

\* the open elements without the one at index k
WithoutIndex(open, k) ==
    [m \in 1..(Len(open) - 1) |-> IF m < k THEN open[m] ELSE open[m + 1]]

\* the open elements after the k-th tag: an opening tag opens its element, a
\* closing tag closes the innermost open element of its own name
OpenAfterTag(ps, k, open) ==
    LET name == TagName(ps, k)
        at   == InnermostOpen(open, name)
    IN  IF ~OpensElement(name) THEN open
        ELSE IF TagIsClosing(ps, k)
        THEN IF at = 0 THEN open ELSE WithoutIndex(open, at)
        ELSE Append(open, [name |-> name, attributes |-> TagAttributes(ps, k)])

RECURSIVE WellNestedFrom(_, _, _)
\* from the k-th tag on, every closing tag of an element names the innermost
\* open element, </br> does not occur, and no element stays open
WellNestedFrom(ps, k, open) ==
    IF k > TagCount(ps) THEN open = <<>>
    ELSE LET name == TagName(ps, k)
         IN  /\ (TagIsClosing(ps, k) /\ OpensElement(name))
                    => (open # <<>> /\ open[Len(open)].name = name)
             /\ ~(TagIsClosing(ps, k) /\ name = TAG_BR)
             /\ WellNestedFrom(ps, k + 1, OpenAfterTag(ps, k, open))

IsWellFormed(ps) == WellNestedFrom(ps, 1, <<>>)

RECURSIVE StyleOfOpen(_, _)
\* the default style transformed by the open elements, outermost first
StyleOfOpen(open, k) ==
    IF k = 0 THEN getDefaultStyle
    ELSE applyStyle(getStrategy(open[k].name), StyleOfOpen(open, k - 1),
                    open[k].attributes, open[k].name)

\* text, weight, style, colour and decoration
Emphasis(text, style) ==
    [text |-> text, fontWeight |-> style.fontWeight, fontStyle |-> style.fontStyle,
     color |-> style.color, textDecoration |-> style.textDecoration]

RECURSIVE TextRunsFrom(_, _, _)
\* the text runs of the document from part j on, each with the emphasis of
\* the elements open where it stands
TextRunsFrom(ps, j, open) ==
    IF j > Len(ps) THEN <<>>
    ELSE IF (j - 1) % 4 = 0
    THEN (IF Trim(ps[j]) # <<>>
          THEN << Emphasis(Trim(ps[j]), StyleOfOpen(open, Len(open))) >> ELSE <<>>)
         \o TextRunsFrom(ps, j + 1, open)
    ELSE IF (j - 1) % 4 = 2
    THEN TextRunsFrom(ps, j + 1, OpenAfterTag(ps, (j + 1) \div 4, open))
    ELSE TextRunsFrom(ps, j + 1, open)

TextRuns(ps) == TextRunsFrom(ps, 1, <<>>)

IsPrefixSegment(seg) == seg.spacingContext = "list-prefix"

IsTextSegment(seg) == seg.text # NEWLINE /\ ~IsPrefixSegment(seg)

\* the segments that stand for text runs, as text and emphasis
TextSegmentsOf(segs) ==
    LET ts == SelectSeq(segs, IsTextSegment)
    IN  [k \in 1..Len(ts) |-> Emphasis(ts[k].text, ts[k])]

\* the open lists after the k-th tag: each with its type and the number of
\* items opened in it so far
ListsAfterTag(ps, k, lists) ==
    LET name == TagName(ps, k)
        top  == lists[Len(lists)]
    IN  IF name \in ListTypes
        THEN IF ~TagIsClosing(ps, k) THEN Append(lists, [type |-> name, items |-> 0])
             ELSE IF lists # <<>> /\ top.type = name
             THEN SubSeq(lists, 1, Len(lists) - 1)
             ELSE lists
        ELSE IF name = LIST_ITEM /\ ~TagIsClosing(ps, k) /\ lists # <<>>
        THEN [lists EXCEPT ![Len(lists)].items = @ + 1]
        ELSE lists

RECURSIVE ListItemsFrom(_, _, _)
\* the items opened inside a list from the k-th tag on: the depth and type
\* of the list each is a direct child of, and its position among its items
ListItemsFrom(ps, k, lists) ==
    IF k > TagCount(ps) THEN <<>>
    ELSE LET after == ListsAfterTag(ps, k, lists)
         IN  (IF TagName(ps, k) = LIST_ITEM /\ ~TagIsClosing(ps, k) /\ lists # <<>>
              THEN << [listNestingLevel |-> Len(after),
                       listType |-> after[Len(after)].type,
                       position |-> after[Len(after)].items] >>
              ELSE <<>>)
             \o ListItemsFrom(ps, k + 1, after)

ListItems(ps) == ListItemsFrom(ps, 1, <<>>)

IsOrderedItem(item) == item.listType = ORDERED_LIST

IsOrderedPrefix(seg) == IsPrefixSegment(seg) /\ seg.listType = ORDERED_LIST

\* the scan of the call came to its end, or was left by a throw
ScanEnded == pc \in {"scan", "done"} /\ i > Len(parts)

Threw == pc = "done" /\ i <= Len(parts)

\* ------------------------------------------------------------------------
\* Properties
\* ------------------------------------------------------------------------

\* the inputs <t1>A</t1>, n blanks, <t2 attrs>B</t2> with n and attrs from sets
PairInputsWith(ns, attrSet) ==
    { PairInput(t1, a, n, t2, attrs, b) :
        t1 \in {TAG_B, TAG_I}, a \in PairTexts, n \in ns,
        t2 \in {TAG_I, TAG_SPAN}, attrs \in attrSet, b \in PairTexts }

\* C1: when A's closing tag is followed by B's opening tag with no
\* whitespace between them, A's segment has hasSpaceAfter = false, whatever
\* the texts, the tag names and the attributes of the second tag.
C1_NoWhitespaceNoSpace ==
    (pc = "done" /\ html \in PairInputsWith({0}, {<<>>, ATTR_STYLE_RED}))
        => /\ Len(result.segments) = 2
           /\ result.segments[1].hasSpaceAfter = FALSE

\* C1, the part of it that holds: without attributes on the second tag.
C1_NoSpaceWithoutAttributes ==
    (pc = "done" /\ html \in PairInputsWith({0}, {<<>>}))
        => /\ Len(result.segments) = 2
           /\ result.segments[1].hasSpaceAfter = FALSE

\* C2: when n >= 1 whitespace characters stand between A's closing tag and
\* B's opening tag, A's segment has hasSpaceAfter = true, whatever n, the
\* texts and the tag names.
C2_WhitespaceGivesSpace ==
    (pc = "done" /\ html \in PairInputsWith(1..MaxWs, {<<>>}))
        => /\ Len(result.segments) = 2
           /\ result.segments[1].hasSpaceAfter = TRUE

\* C3: for well-formed input the style stack holds the default style and
\* nothing else when the scan ends.
C3_StackBalanced ==
    (ScanEnded /\ IsWellFormed(parts)) => styleStack = << getDefaultStyle >>

\* C3 witness: the scan of a well-formed input with nested elements ended.
C3_Witness ==
    /\ pc = "scan" /\ i > Len(parts)
    /\ IsWellFormed(parts)
    /\ html \in NestedInputs
    /\ Len(styleStack) = 1

HasStructuralError(h) ==
    \E k \in 1..Len(validateHTML(h)) :
        validateHTML(h)[k].kind \in {"Mismatched closing tag", "Unclosed tags"}

UsesCustomTag(ps) == \E k \in 1..TagCount(ps) : TagName(ps, k) \in customStrategies

\* C4: for input with unclosed or mismatched tags the scan runs to its end,
\* the errors returned are not empty, and every text run is returned as a
\* segment with the emphasis of the elements open where it stands.
C4_StructuralErrorsKeepText ==
    (pc = "done" /\ HasStructuralError(html) /\ ~UsesCustomTag(parts))
        => /\ i > Len(parts)
           /\ result.errors # <<>>
           /\ TextSegmentsOf(result.segments) = TextRuns(parts)

\* C4, the part of it that holds: the scan runs to its end, errors are
\* returned, and the texts of the text runs come back in order.
C4_StructuralErrorsKeepTextOnly ==
    (pc = "done" /\ HasStructuralError(html) /\ ~UsesCustomTag(parts))
        => /\ i > Len(parts)
           /\ result.errors # <<>>
           /\ [k \in 1..Len(TextSegmentsOf(result.segments)) |->
                  TextSegmentsOf(result.segments)[k].text]
              = [k \in 1..Len(TextRuns(parts)) |-> TextRuns(parts)[k].text]

\* C5: the result of a call is the result the same input gives as the first
\* call of a fresh process, whatever the calls before it left behind.
C5_ParseIsolation ==
    pc = "done" => result = ParseFresh(html)

\* C5 witness: a call that found list state of an earlier call has returned
\* a result with list prefixes.
C5_Witness ==
    /\ pc = "done" /\ staleListState
    /\ \E k \in 1..Len(result.segments) : IsPrefixSegment(result.segments[k])

\* C6: in well-formed input the k-th item that is a direct child of an
\* ordered list gets the prefix 'k. ': the prefixes of the ordered items, in
\* the order of the document, are the positions of the items in their lists.
C6_OrderedNumbering ==
    (ScanEnded /\ IsWellFormed(parts))
        => LET prefixes == SelectSeq(segments, IsOrderedPrefix)
               items    == SelectSeq(ListItems(parts), IsOrderedItem)
           IN  /\ Len(prefixes) = Len(items)
               /\ \A k \in 1..Len(items) :
                      prefixes[k].text = NumberToString(items[k].position) \o NUMBER_SUFFIX

\* C6 witness: the outer numbering went on to '2. ' after a nested ordered
\* list that started at '1. '.
C6_Witness ==
    /\ ScanEnded /\ IsWellFormed(parts)
    /\ LET prefixes == SelectSeq(segments, IsOrderedPrefix)
       IN  /\ Len(prefixes) >= 3
           /\ prefixes[1].listNestingLevel = 1 /\ prefixes[1].text = <<"1", ".", " ">>
           /\ prefixes[2].listNestingLevel = 2 /\ prefixes[2].text = <<"1", ".", " ">>
           /\ prefixes[3].listNestingLevel = 1 /\ prefixes[3].text = <<"2", ".", " ">>

\* the counters of the list family
ListCounters ==
    IF FAMILY \in DOMAIN compositeState.counters
    THEN compositeState.counters[FAMILY] ELSE EmptyMap

\* C7: at every moment the counter map of the list family holds a key
\* (ol, d) only if the nesting stack holds 'ol' at depth d.
C7_CountersFollowStack ==
    \A key \in DOMAIN ListCounters :
        LET stack == getCompositeStack(compositeState, FAMILY)
        IN  /\ key[3] \in 1..Len(stack)
            /\ stack[key[3]] = key[2]

\* C8: every item opened inside a list emits its prefix as a segment of its
\* own with weight, style, colour and decoration normal, normal, #000000 and
\* none, with the list fields of the item, and spacing analysis leaves it
\* with spacingContext 'list-prefix' and hasSpaceAfter = true.
C8_PrefixSegments ==
    (pc = "done" /\ ~Threw)
        => LET emitted  == SelectSeq(segments, IsPrefixSegment)
               returned == SelectSeq(result.segments, IsPrefixSegment)
               items    == ListItems(parts)
               plain(seg, item) ==
                   /\ seg.fontWeight = "normal" /\ seg.fontStyle = "normal"
                   /\ seg.color = BLACK /\ seg.textDecoration = "none"
                   /\ seg.isListItem
                   /\ seg.listNestingLevel = item.listNestingLevel
                   /\ seg.listType = item.listType
                   /\ seg.hasSpaceAfter
               prefixOf(item) ==
                   IF item.listType = ORDERED_LIST
                   THEN NumberToString(item.position) \o NUMBER_SUFFIX ELSE BULLET
           IN  /\ Len(emitted) = Len(items) /\ Len(returned) = Len(items)
               /\ \A k \in 1..Len(items) :
                      /\ plain(emitted[k], items[k]) /\ plain(returned[k], items[k])
                      /\ emitted[k].text = prefixOf(items[k])
                      /\ returned[k].text = Trim(prefixOf(items[k]))

\* C8 witness: a list inside a bold element was parsed, its item text came
\* back bold and its prefix did not.
C8_Witness ==
    /\ pc = "done" /\ ~Threw
    /\ \E k \in 1..(Len(result.segments) - 1) :
          /\ IsPrefixSegment(result.segments[k])
          /\ result.segments[k].fontWeight = "normal"
          /\ result.segments[k + 1].isListItem
          /\ result.segments[k + 1].fontWeight = "bold"

\* the part at hand is the tag of a name without a strategy
AtUnsupportedTag ==
    /\ InLoop
    /\ \/ PartKind(parts, i) = "closing" /\ getStrategy(ToLowerCase(parts[i + 1])) = "none"
       \/ PartKind(parts, i) = "opening" /\ getStrategy(ToLowerCase(parts[i])) = "none"

\* C9: the step at a tag without a strategy adds one error and leaves the
\* style stack, the current style and the segments as they are; the scan
\* goes on with the next part.
C9_UnsupportedTagFrame ==
    [][AtUnsupportedTag =>
          /\ styleStack' = styleStack
          /\ currentStyle' = currentStyle
          /\ segments' = segments
          /\ compositeState' = compositeState
          /\ Len(errors') = Len(errors) + 1
          /\ SubSeq(errors', 1, Len(errors)) = errors
          /\ errors'[Len(errors')].kind \in {"Unsupported tag", "Unsupported closing tag"}
          /\ pc' = "scan" /\ i' = i + 1]_vars

\* C9 witness: a closing tag without a strategy was passed inside an open
\* element, after a segment.
C9_Witness ==
    /\ pc = "scan" /\ i > 1
    /\ Len(styleStack) > 1 /\ segments # <<>>
    /\ errors # <<>> /\ errors[Len(errors)].kind = "Unsupported closing tag"
    /\ PartKind(parts, i - 1) = "closing"

\* C10: when a strategy's parse throws, the call returns one segment, the
\* whole input in the default style, and one error, a 'Parse error'.
C10_ThrowGivesFallback ==
    Threw
        => /\ Len(result.segments) = 1
           /\ result.segments[1].text = html
           /\ Emphasis(html, result.segments[1]) = Emphasis(html, getDefaultStyle)
           /\ Len(result.errors) = 1
           /\ result.errors[1].kind = "Parse error"

\* C10 witness: the throw came after a segment and an error of the scan,
\* and neither is in the result.
C10_Witness ==
    /\ Threw
    /\ segments # <<>>
    /\ \E k \in 1..Len(errors) : errors[k].kind = "Unsupported closing tag"
    /\ Len(result.segments) = 1 /\ Len(result.errors) = 1

\* the names the claim exempts from open/close tracking
ExemptNames ==
    { TAG_BR, <<"h","r">>, <<"i","m","g">>, <<"i","n","p","u","t">>,
      <<"m","e","t","a">>, <<"l","i","n","k">> }

RECURSIVE ValidDocumentFrom(_, _, _)
\* from the k-th tag on: every closing tag names the innermost open tracked
\* tag, every opening tag name is registered, and no tracked tag stays open
ValidDocumentFrom(ps, k, open) ==
    IF k > TagCount(ps) THEN open = <<>>
    ELSE LET name == TagName(ps, k)
         IN  IF TagIsClosing(ps, k)
             THEN /\ open # <<>>
                  /\ open[Len(open)] = name
                  /\ ValidDocumentFrom(ps, k + 1, SubSeq(open, 1, Len(open) - 1))
             ELSE /\ getStrategy(name) # "none"
                  /\ ValidDocumentFrom(ps, k + 1,
                         IF name \in ExemptNames THEN open ELSE Append(open, name))

\* C11 as stated: validateHTML returns isValid = true exactly when every
\* closing tag matches the innermost open tag, no tracked tag is left open
\* and every opening tag name is registered, for every input.
C11_ValidExactlyWhenStructured ==
    pc # "idle" => ((validateHTML(html) = <<>>) <=> ValidDocumentFrom(parts, 1, <<>>))

\* C11 amended: for non-empty input validateHTML returns isValid = true
\* exactly when every closing tag matches the innermost open tag, no tracked
\* tag is left open and every opening tag name is registered, br and its
\* like never being tracked; the empty string is not valid.
C11_ValidExactlyWhenStructuredNonEmpty ==
    pc # "idle" =>
        /\ html # <<>> =>
               ((validateHTML(html) = <<>>) <=> ValidDocumentFrom(parts, 1, <<>>))
        /\ html = <<>> => validateHTML(html) # <<>>

\* C11 witness: an input with nested elements and a <br> that is never
\* closed was found valid.
C11_Witness ==
    /\ pc = "scan" /\ html # <<>>
    /\ validateHTML(html) = <<>> /\ errors = <<>>
    /\ \E k \in 1..TagCount(parts) : TagName(parts, k) = TAG_BR
    /\ TagCount(parts) >= 5

\* a segment is styled: bold, italic, a colour other than #000000, underline
\* or line-through, or a font size other than the default 14
Styled(seg) ==
    \/ seg.fontWeight = "bold"
    \/ seg.fontStyle = "italic"
    \/ seg.color # BLACK
    \/ seg.textDecoration \in {"underline", "line-through"}
    \/ seg.fontSize \notin {0, 14}

ContextOf(styled, nextStyled) ==
    IF styled THEN (IF nextStyled THEN "tag-to-tag" ELSE "tag-to-text")
    ELSE (IF nextStyled THEN "text-to-tag" ELSE "text-to-text")

\* C12: every returned segment that is neither the last one nor a list
\* prefix has the spacingContext that its being styled and its successor's
\* being styled decide.
C12_ContextByStyle ==
    (pc = "done" /\ ~Threw)
        => \A k \in 1..(Len(result.segments) - 1) :
               ~IsPrefixSegment(result.segments[k])
                   => result.segments[k].spacingContext
                          = ContextOf(Styled(result.segments[k]),
                                      Styled(result.segments[k + 1]))

\* C12 witness: '<b>A</b> <i>A</i>' came back with A, hasSpaceAfter = true
\* and 'tag-to-tag'.
C12_Witness ==
    /\ pc = "done"
    /\ html = PairInput(TAG_B, <<"A">>, 1, TAG_I, <<>>, <<"A">>)
    /\ Len(result.segments) = 2
    /\ result.segments[1].hasSpaceAfter
    /\ result.segments[1].spacingContext = "tag-to-tag"

\* the part at hand is the closing tag of a heading, a paragraph or a list
\* container
AtBlockClosingTag ==
    /\ InLoop /\ PartKind(parts, i) = "closing"
    /\ ToLowerCase(parts[i + 1]) \in {TAG_H1, TAG_H2, TAG_P, UNORDERED_LIST, ORDERED_LIST}

\* something other than whitespace stands in the input after the closing
\* tag whose slash is part k: a text that is not blank, or a further tag
ContentFollows(ps, k) ==
    \E j \in (k + 3)..Len(ps) : Trim(ps[j]) # <<>>

\* the segments the closing tag at hand adds
SegmentsOfClosingTag ==
    LET after == ClosingTagStep(parts, Locals).segments
    IN  SubSeq(after, Len(segments) + 1, Len(after))

\* C17: the closing tag of a heading, a paragraph or a list container adds
\* one '\n' segment when something other than whitespace follows it in the
\* input, and no segment when nothing does.
C17_NewlineIffContentFollows ==
    AtBlockClosingTag
        => IF ContentFollows(parts, i)
           THEN /\ Len(SegmentsOfClosingTag) = 1
                /\ SegmentsOfClosingTag[1].text = NEWLINE
           ELSE SegmentsOfClosingTag = <<>>

\* C17, the part of it that holds: a '\n' segment is added only when
\* something other than whitespace follows the closing tag.
C17_NewlineOnlyIfContentFollows ==
    AtBlockClosingTag
        => /\ Len(SegmentsOfClosingTag) <= 1
           /\ SegmentsOfClosingTag # <<>>
                  => /\ SegmentsOfClosingTag[1].text = NEWLINE
                     /\ ContentFollows(parts, i)

RECURSIVE OpenStylesFrom(_, _, _)
\* for every text run of the document from part j on, the default style
\* transformed by the elements open where it stands, outermost first
OpenStylesFrom(ps, j, open) ==
    IF j > Len(ps) THEN <<>>
    ELSE IF (j - 1) % 4 = 0
    THEN (IF Trim(ps[j]) # <<>> THEN << StyleOfOpen(open, Len(open)) >> ELSE <<>>)
         \o OpenStylesFrom(ps, j + 1, open)
    ELSE IF (j - 1) % 4 = 2
    THEN OpenStylesFrom(ps, j + 1, OpenAfterTag(ps, (j + 1) \div 4, open))
    ELSE OpenStylesFrom(ps, j + 1, open)

\* weight, style, colour, decoration and font size
StyleFields(s) ==
    [fontWeight |-> s.fontWeight, fontStyle |-> s.fontStyle, color |-> s.color,
     textDecoration |-> s.textDecoration, fontSize |-> s.fontSize]

\* C18: in well-formed input the style of every text segment is the default
\* style transformed by the tags open where the text stands, outermost
\* first; text after a closing tag has the style in effect before the
\* matching opening tag.
C18_TextStyleOfOpenTags ==
    (pc = "done" /\ ~Threw /\ IsWellFormed(parts))
        => LET ts     == SelectSeq(result.segments, IsTextSegment)
               styles == OpenStylesFrom(parts, 1, <<>>)
           IN  /\ Len(ts) = Len(styles)
               /\ \A k \in 1..Len(ts) : StyleFields(ts[k]) = StyleFields(styles[k])

\* C18 witness: '<b>x<i>xx</i>x</b>x' came back bold, bold italic, bold
\* again and plain.
C18_Witness ==
    /\ pc = "done" /\ IsWellFormed(parts)
    /\ html = OpenTag(TAG_B, <<>>) \o TEXT_X \o OpenTag(TAG_I, <<>>) \o TEXT_X \o TEXT_X
                  \o CloseTag(TAG_I) \o TEXT_X \o CloseTag(TAG_B) \o TEXT_X
    /\ Len(result.segments) = 4
    /\ [k \in 1..4 |-> <<result.segments[k].fontWeight, result.segments[k].fontStyle>>]
           = << <<"bold", "normal">>, <<"bold", "italic">>,
                <<"bold", "normal">>, <<"normal", "normal">> >>

\* the scan at part k has handled the m-th tag: an opening tag is handled
\* at its name, a closing tag at its slash
TagHandled(ps, m, k) ==
    IF TagIsClosing(ps, m) THEN k >= NamePart(m) ELSE k > NamePart(m)

RECURSIVE OpenElementsFrom(_, _, _, _)
\* the elements opened and not yet closed by their own closing tag among
\* the tags the scan at part k has handled, from the m-th tag on
OpenElementsFrom(ps, m, k, open) ==
    IF m > TagCount(ps) \/ ~TagHandled(ps, m, k) THEN open
    ELSE OpenElementsFrom(ps, m + 1, k, OpenAfterTag(ps, m, open))

\* C19: at every point of the scan, for every input, the depth of the style
\* stack is 1 plus the number of tags opened that pushed a style and were
\* not yet closed by their own closing tag.
C19_DepthCountsOpenTags ==
    pc = "scan" => Len(styleStack) = 1 + Len(OpenElementsFrom(parts, 1, i, <<>>))

\* C19, the part of it that holds: the same for well-formed input.
C19_DepthCountsOpenTagsWellFormed ==
    (pc = "scan" /\ IsWellFormed(parts))
        => Len(styleStack) = 1 + Len(OpenElementsFrom(parts, 1, i, <<>>))

\* ------------------------------------------------------------------------
\* Layout: line wrapping
\* ------------------------------------------------------------------------

\* a segment that is not a line break is about to be placed
AtPlacedSegment == InLayoutLoop /\ CurrentSegment.text # NEWLINE

\* the first box pushed for the segment at hand
FirstBoxOf(after) == after.positioned[Len(layout.positioned) + 1]

\* the top of the line the box stands on: the single-box path pushes the
\* box down by segmentLineHeight - height, the word-wrapped path does not
LineTopOf(box, wordWrapped, measurement) ==
    IF wordWrapped THEN box.y
    ELSE box.y - (Math_max(lineHeight, measurement.height) - measurement.height)

\* the first box of a segment stands on the line at lineY, at the cursor x
\* plus the list indentation and the 2px offset of unstyled text, if any
FirstBoxAt(box, lineTop, x, lineY) ==
    /\ lineTop = lineY
    /\ box.x - indentationX(CurrentSegment) \in {x, x + Px(2)}

MovedToNewLine(box, lineTop, measurement) ==
    FirstBoxAt(box, lineTop, startX,
               layout.currentY + Math_max(lineHeight, measurement.height))

StaysOnLine(box, lineTop) ==
    FirstBoxAt(box, lineTop, layout.currentX, layout.currentY)

SegmentWrapRule(box, lineTop, measurement) ==
    IF layout.currentX > startX
       /\ layout.currentX + measurement.width > layout.wrapWidth
    THEN MovedToNewLine(box, lineTop, measurement)
    ELSE StaysOnLine(box, lineTop)

SegmentWrapRuleFor(after, measurement) ==
    Len(after.positioned) > Len(layout.positioned)
        /\ SegmentWrapRule(FirstBoxOf(after),
                           LineTopOf(FirstBoxOf(after), WordWrapsHere, measurement),
                           measurement)

\* C13: a segment met at x = startX is placed on the line of the cursor
\* whatever its width; a segment met at x > startX is placed on a new line
\* (x = startX, y advanced by max(lineHeight, measured height)) exactly
\* when x + width > wrapWidth.
C13_SegmentWrap ==
    AtPlacedSegment =>
        SegmentWrapRuleFor(PlaceStep(Cursor, layout.segments, layout.wrapWidth),
                           CurrentMeasurement)

\* a first segment wider than wrapWidth began on the first line, and the
\* bold segment that did not fit behind its last word began on a new line
C13_Witness ==
    /\ layout.pc = "place" /\ layout.i = 3 /\ layout.wrapWidth = Px(40)
    /\ Len(layout.positioned) = 4
    /\ layout.positioned[1].x = startX
    /\ layout.positioned[1].y = startY
    /\ layout.positioned[1].width > layout.wrapWidth
    /\ layout.positioned[2].x > startX
    /\ layout.positioned[3].fontWeight = "bold"
    /\ layout.positioned[3].x = startX
    /\ layout.positioned[3].y = layout.positioned[2].y + lineHeight

\* ------------------------------------------------------------------------
\* Layout: word wrapping
\* ------------------------------------------------------------------------

\* the boxes pushed for the segment at hand
NewBoxes(after) ==
    SubSeq(after.positioned, Len(layout.positioned) + 1, Len(after.positioned))

\* a box holds one word, or is no wider than wrapWidth
FitsOrSingleWord(box, wrapWidth) ==
    box.width <= wrapWidth \/ ~Includes(box.text, <<" ">>)

\* a line was ended only because its text with the first word of the next
\* line is wider than wrapWidth
BrokenWhenFull(boxes, wrapWidth) ==
    \A j \in 1..(Len(boxes) - 1) :
        /\ boxes[j].text # <<>>
        /\ measureText(boxes[j].text \o <<" ">> \o SplitBySpace(boxes[j + 1].text)[1],
                       boxes[j]).width > wrapWidth

\* the lines of one word-wrapped segment are filled greedily
GreedyLines(boxes, wrapWidth) ==
    /\ \A j \in 1..Len(boxes) : FitsOrSingleWord(boxes[j], wrapWidth)
    /\ BrokenWhenFull(boxes, wrapWidth)

\* C14: word wrapping is greedy by accumulated line width: every box has a
\* measured width of at most wrapWidth or holds a single word, and within a
\* segment a new line is started exactly when the accumulated line with the
\* next word would be wider than wrapWidth.
C14_GreedyWordWrap ==
    /\ \A j \in 1..Len(layout.positioned) :
            FitsOrSingleWord(layout.positioned[j], layout.wrapWidth)
    /\ (AtPlacedSegment /\ WordWrapsHere) =>
            GreedyLines(NewBoxes(PlaceStep(Cursor, layout.segments, layout.wrapWidth)),
                        layout.wrapWidth)

\* one segment was wrapped into a line of two words and a line of one, the
\* next into a single word wider than wrapWidth and a last word
C14_Witness ==
    /\ layout.pc = "place" /\ layout.wrapWidth = Px(60)
    /\ Len(layout.positioned) = 4
    /\ layout.positioned[1].text = <<"a", "b", " ", "c", "d">>
    /\ layout.positioned[2].text = <<"e", "f">>
    /\ layout.positioned[2].y = layout.positioned[1].y + lineHeight
    /\ layout.positioned[3].text = <<"a", "b", "c", "d", "e", "f", "g", "h">>
    /\ layout.positioned[3].width > layout.wrapWidth
    /\ layout.positioned[4].text = <<"i", "j">>

\* ------------------------------------------------------------------------
\* Layout: the space below a heading
\* ------------------------------------------------------------------------

\* the loop of layoutSegments has ended
LayoutDone == layout.pc = "place" /\ layout.i > Len(layout.segments)

\* a document of HeadingInputs is laid out: its heading holds one text, so
\* the heading's box is the first, or the second behind a leading text
HeadingLaidOut == LayoutDone /\ layout.html \in HeadingInputs

HeadingBox == IF Head(layout.html) = "<" THEN 1 ELSE 2

\* a box stands behind the heading's and belongs to no heading of its type
\* (a heading segment of the same size continues the heading block)
BlockFollowed(hb) ==
    /\ Len(layout.positioned) > hb
    /\ ~(/\ isHeadingStyle(layout.positioned[hb + 1])
         /\ getHeadingType(layout.positioned[hb + 1])
                = getHeadingType(layout.positioned[hb]))

SpaceBelowHeading(heading, next) ==
    next.y >= heading.y + lineHeight + getHeadingSpacing(getHeadingType(heading))

\* a '\n' segment stands right behind the heading's segment
NewlineBehindHeading(segs) ==
    \E k \in 1..(Len(segs) - 1) :
        /\ segs[k].text # NEWLINE /\ isHeadingStyle(segs[k])
        /\ segs[k + 1].text = NEWLINE
        /\ \A j \in 1..(k - 1) : segs[j].text = NEWLINE \/ ~isHeadingStyle(segs[j])

\* C15: the segment that follows a heading block is placed at least
\* lineHeight plus half the heading's font size below the heading,
\* whatever follows the closing heading tag.
C15_SpaceBelowHeading ==
    (HeadingLaidOut /\ BlockFollowed(HeadingBox)) =>
        SpaceBelowHeading(layout.positioned[HeadingBox],
                          layout.positioned[HeadingBox + 1])

\* C15, where the parser has put a line break behind the heading
C15_SpaceBelowHeadingAfterBreak ==
    (HeadingLaidOut /\ BlockFollowed(HeadingBox)
        /\ NewlineBehindHeading(layout.segments)) =>
        SpaceBelowHeading(layout.positioned[HeadingBox],
                          layout.positioned[HeadingBox + 1])

\* ------------------------------------------------------------------------
\* Layout: list indentation
\* ------------------------------------------------------------------------

\* the nesting level a segment is indented by
LevelOf(segment) == IF segment.isListItem THEN segment.listNestingLevel ELSE 0

\* 20 + (L - 1) * 20 pixels for L >= 1, none for level 0
ExpectedIndentation(level) == IF level >= 1 THEN Px(20 + (level - 1) * 20) ELSE 0

\* every box of the segment at hand stands at a line start or at the cursor,
\* moved right by the indentation (and 2px where the text is unstyled)
IndentedBy(boxes, indentation) ==
    \A j \in 1..Len(boxes) :
        boxes[j].x - indentation
            \in {startX, startX + Px(2), layout.currentX, layout.currentX + Px(2)}

\* C16: ListHelpers.calculateListIndentation and the inline indentation of
\* layoutSegments agree: both are 20 + (L - 1) * 20 for a list item of
\* level L >= 1 and 0 for a segment that is no list item or has level 0, and
\* the boxes of the segment are moved right by that much.
C16_IndentationAgrees ==
    AtPlacedSegment =>
        /\ indentationX(CurrentSegment) = calculateListIndentation(LevelOf(CurrentSegment))
        /\ indentationX(CurrentSegment) = ExpectedIndentation(LevelOf(CurrentSegment))
        /\ IndentedBy(NewBoxes(PlaceStep(Cursor, layout.segments, layout.wrapWidth)),
                      calculateListIndentation(LevelOf(CurrentSegment)))

\* a nested list was converted: an item prefix of level 1 stands 20 pixels
\* and one of level 2 stands 40 pixels right of the line start
C16_Witness ==
    /\ LayoutDone /\ layout.html \in OuterLists
    /\ \E j, k \in 1..Len(layout.positioned) :
        /\ layout.positioned[j].isListItem
        /\ layout.positioned[j].listNestingLevel = 1
        /\ layout.positioned[j].x = startX + Px(20)
        /\ layout.positioned[k].isListItem
        /\ layout.positioned[k].listNestingLevel = 2
        /\ layout.positioned[k].x = startX + Px(40)

\* ------------------------------------------------------------------------
\* Interleaved passes: the shared list state
\* ------------------------------------------------------------------------

\* pass p is about to handle an opening <li>
AtListItem(p) ==
    /\ InPassLoop(p) /\ PassPartKind(p) = "opening"
    /\ ToLowerCase(passes[p].parts[passes[p].st.i]) = LIST_ITEM

\* the segments a step adds to those of pass p
EmittedBy(p, after) ==
    SubSeq(after.segments, Len(passes[p].st.segments) + 1, Len(after.segments))

\* the item style and the prefix are those of the static store as any pass
\* left it: the level is the depth of its stack, the type its top, the
\* prefix the one its counters give
ItemOfStaticStore(emitted, style) ==
    /\ style.isListItem
    /\ style.listNestingLevel = getCurrentNestingLevel(compositeState, FAMILY)
    /\ style.listType = getParentType(compositeState, FAMILY)
    /\ IF getListItemPrefix(compositeState).prefix = <<>>
       THEN \A k \in 1..Len(emitted) : emitted[k].spacingContext # "list-prefix"
       ELSE /\ emitted # <<>>
            /\ emitted[Len(emitted)].text = getListItemPrefix(compositeState).prefix

ItemStepOfStaticStore(p, after) ==
    ItemOfStaticStore(EmittedBy(p, after), after.currentStyle)

RECURSIVE RunLoopTo(_, _, _)
\* the for loop of parseHTML up to the part at position n
RunLoopTo(ps, st, n) ==
    IF st.threw \/ st.i >= n THEN st ELSE RunLoopTo(ps, LoopBody(ps, st), n)

\* the segments pass p would have at this point of a run of its own
IsolatedSegments(p) ==
    RunLoopTo(passes[p].parts, InitialLocals(passes[p].html, EmptyCompositeState),
              passes[p].st.i).segments

\* pass p has emitted a prefix or a nesting level its isolated run has not
Diverged(p) ==
    /\ passes[p].pc = "scan"
    /\ passes[p].st.segments # IsolatedSegments(p)

\* C20: the list stack and counters are one store for every pass: the
\* nesting level, list type and prefix a pass gives a list item are those
\* of the store as the last step of any pass left it.
C20_ItemFromSharedStore ==
    \A p \in Passes :
        AtListItem(p) =>
            ItemStepOfStaticStore(p, LoopBody(passes[p].parts, PassLocals(p)))

\* a pass has emitted an item that differs from its isolated run, while the
\* other pass is running
C20_Witness ==
    /\ Diverged("A")
    /\ passes["B"].pc = "scan"
    /\ \E k \in 1..Len(passes["A"].st.segments) :
            /\ passes["A"].st.segments[k].isListItem
            /\ (k > Len(IsolatedSegments("A"))
                    \/ passes["A"].st.segments[k] # IsolatedSegments("A")[k])

\* ------------------------------------------------------------------------
\* Layout: the spacing added below a heading block
\* ------------------------------------------------------------------------

\* the last box pushed for the segment at hand
LastBoxOf(after) == after.positioned[Len(after.positioned)]

\* the spacing the claim gives the segment at hand: half the heading's font
\* size where it ends its heading block, none where a heading of the same
\* level follows
DueHeadingSpacing ==
    IF isEndOfHeadingBlock(layout.segments, layout.i, getHeadingType(CurrentSegment))
    THEN getHeadingSpacing(getHeadingType(CurrentSegment))
    ELSE 0

\* the cursor y stands below the line of the segment's last box by the
\* spacing due
HeadingSpacingAdded(after, lineTop, due) == after.currentY - lineTop = due

HeadingSpacingOnce(after, measurement) ==
    /\ Len(after.positioned) > Len(layout.positioned)
    /\ HeadingSpacingAdded(after,
                           LineTopOf(LastBoxOf(after), WordWrapsHere, measurement),
                           DueHeadingSpacing)

AtHeadingSegment == AtPlacedSegment /\ isHeadingStyle(CurrentSegment)

\* C21: a heading segment that ends its heading block moves the cursor y
\* down by headingFontSize / 2 exactly once, in the word-wrapped path as in
\* the single-box path; one followed by a heading of its level by nothing.
C21_HeadingSpacingOnce ==
    AtHeadingSegment =>
        HeadingSpacingOnce(PlaceStep(Cursor, layout.segments, layout.wrapWidth),
                           CurrentMeasurement)

\* C21 in the single-box path
C21_HeadingSpacingOnceSingleBox ==
    (AtHeadingSegment /\ ~WordWrapsHere) =>
        HeadingSpacingOnce(PlaceStep(Cursor, layout.segments, layout.wrapWidth),
                           CurrentMeasurement)

\* ------------------------------------------------------------------------
\* The spacing analysis of a result
\* ------------------------------------------------------------------------

\* parseHTML has returned the result of a scan that came to its end
Succeeded == pc = "done" /\ i > Len(parts)

HasSpacingContext(seg) ==
    seg.spacingContext \in {"text-to-text", "text-to-tag", "tag-to-text",
                            "tag-to-tag", "list-prefix"}

\* C22: every segment of a successful result has a spacingContext, the
\* last segment and the only segment of a result too.
C22_EverySegmentHasContext ==
    Succeeded =>
        \A k \in 1..Len(result.segments) : HasSpacingContext(result.segments[k])

\* C22 for the results of two segments and more
C22_ContextInLongerResults ==
    (Succeeded /\ Len(result.segments) >= 2) =>
        \A k \in 1..Len(result.segments) : HasSpacingContext(result.segments[k])

\* C23: the last segment of a result is never marked hasSpaceAfter.
C23_LastSegmentNoSpace ==
    (pc = "done" /\ result.segments # <<>>) =>
        ~result.segments[Len(result.segments)].hasSpaceAfter

\* C23 for results whose last segment is no list prefix
C23_LastTextNoSpace ==
    (pc = "done" /\ result.segments # <<>>
        /\ result.segments[Len(result.segments)].spacingContext # "list-prefix") =>
        ~result.segments[Len(result.segments)].hasSpaceAfter

\* ------------------------------------------------------------------------
\* The list fields of a segment
\* ------------------------------------------------------------------------

ListFieldsSet(seg) ==
    seg.isListItem => (seg.listNestingLevel >= 1 /\ seg.listType \in ListTypes)

\* C24: every segment marked isListItem has a nesting level of 1 or more
\* and the list type ul or ol, whether or not its <li> stands in a list.
C24_ListItemFields ==
    pc = "done" =>
        \A k \in 1..Len(result.segments) : ListFieldsSet(result.segments[k])

\* C24 for the documents whose list items all stand in a list
C24_ListItemFieldsInLists ==
    (pc = "done" /\ html \notin BareItems) =>
        \A k \in 1..Len(result.segments) : ListFieldsSet(result.segments[k])


\* the scan stands at an opening tag of the attribute inputs
AtAttributeTag ==
    /\ InLoop /\ PartKind(parts, i) = "opening"
    /\ html \in AttributeInputs

\* the errors the validation of the tag at hand gives
AttributeErrors ==
    LET tagName == ToLowerCase(parts[i])
    IN  IF getStrategy(tagName) = "List"
        THEN validateCommonListAttributes(parts[i + 1])
        ELSE validateAttributes(getStrategy(tagName), parts[i + 1])

\* the parts with the attributes of the tag at hand replaced
WithAttributes(attributes) == [parts EXCEPT ![i + 1] = attributes]

\* the opening tag at hand takes full effect: the errors of its validation
\* are appended, its style is pushed, a span applies its valid colour, a
\* link is styled as one whose href is valid, a list tag leaves the
\* segments, the list state and the style of the tag without attributes
TakesFullEffect(after, valid, plain) ==
    LET strategy == getStrategy(ToLowerCase(parts[i]))
    IN  /\ after.errors = errors \o AttributeErrors
        /\ after.styleStack = Append(styleStack, after.currentStyle)
        /\ strategy = "Span" =>
               after.currentStyle.color = MatchCssProperty(
                   extractStyleAttribute(parts[i + 1]).value, PROP_COLOR).value
        /\ strategy = "Hyperlink" => after.currentStyle = valid.currentStyle
        /\ strategy = "List" =>
               /\ after.segments = plain.segments
               /\ after.cs = plain.cs
               /\ after.currentStyle = plain.currentStyle

\* C25: an opening tag whose attributes fail validation (an unsupported
\* CSS property or value in a span, an empty or invalid href in a link,
\* malformed list attributes) still takes full effect: its errors are
\* appended, its style is pushed, the valid declarations of the attribute
\* are applied, and a list tag gives the nesting stack entry and the item
\* prefix of a valid tag.
C25_InvalidAttributesTakeEffect ==
    (AtAttributeTag /\ AttributeErrors # <<>>)
        => TakesFullEffect(OpeningTagStep(parts, Locals),
                           OpeningTagStep(WithAttributes(AttrHref(HREF_FRAGMENT)), Locals),
                           OpeningTagStep(WithAttributes(<<>>), Locals))

\* C25 witness: a span inside a bold element was opened with a valid
\* colour next to an invalid font-weight; the error is recorded and the
\* colour is the current one.
C25_Witness ==
    /\ html \in AttributeInputs
    /\ pc = "scan" /\ i = 8
    /\ parts[7] = TAG_SPAN /\ parts[8] = StyleRedAnd(DECL_BAD_WEIGHT)
    /\ Len(errors) = 1 /\ errors[1].kind = "Invalid font-weight value"
    /\ Len(styleStack) = 3
    /\ currentStyle.color = <<"r", "e", "d">>

\* the scan stands at the name of an opening <br>
AtOpeningBreak ==
    /\ InLoop /\ PartKind(parts, i) = "opening"
    /\ ToLowerCase(parts[i]) = TAG_BR

\* the scan stands at the slash of a closing </br>
AtClosingBreak ==
    /\ InLoop /\ PartKind(parts, i) = "closing"
    /\ ToLowerCase(parts[i + 1]) = TAG_BR

\* the step emits one '\n' segment in the current style and nothing else
OpeningBreakEffect(after) ==
    /\ after.segments = Append(segments, MakeSegment(NEWLINE, currentStyle))
    /\ after.styleStack = styleStack
    /\ after.currentStyle = currentStyle
    /\ after.errors = errors

\* the step records one error and nothing else
ClosingBreakEffect(after) ==
    /\ Len(after.errors) = Len(errors) + 1
    /\ SubSeq(after.errors, 1, Len(errors)) = errors
    /\ after.segments = segments
    /\ after.styleStack = styleStack
    /\ after.currentStyle = currentStyle

\* C26: an opening <br> emits exactly one '\n' segment carrying the current
\* style and leaves the style stack and the current style unchanged; a
\* closing </br> adds an error, emits no segment and pops nothing from the
\* style stack.
C26_LineBreakFrame ==
    /\ AtOpeningBreak => OpeningBreakEffect(OpeningTagStep(parts, Locals))
    /\ AtClosingBreak => ClosingBreakEffect(ClosingTagStep(parts, Locals))

\* C26 witness: inside a bold element a </br> was scanned; its error
\* follows those of the validation, the text before it is the only segment
\* and the style of the element is still on the stack.
C26_Witness ==
    /\ html \in BreakInputs
    /\ pc = "scan" /\ i > 1
    /\ parts[i - 1] = SLASH /\ ToLowerCase(parts[i]) = TAG_BR
    /\ errors = validateHTML(html)
          \o << Err("Unexpected closing tag for self-closing <br> element", <<>>) >>
    /\ Len(segments) = 1
    /\ Len(styleStack) = 2 /\ currentStyle.fontWeight = "bold"

\* ------------------------------------------------------------------------
\* Layout: the spacing after a segment
\* ------------------------------------------------------------------------

\* the spacing by context, w being the width of a space in the style of
\* the segment
SpacingByContext(segment, shared, wordWrapped, w) ==
    IF ~segment.hasSpaceAfter THEN 0
    ELSE IF segment.spacingContext = "text-to-tag" THEN Math_max(w, Px(8))
    ELSE IF segment.spacingContext = "tag-to-text" THEN Math_min(w, Px(6))
    ELSE IF segment.spacingContext = "list-prefix" THEN Px(5)
    ELSE IF segment.spacingContext = "tag-to-tag"
    THEN IF shared THEN Math_min(w, Px(5))
         ELSE IF wordWrapped THEN Math_max(w, Px(10)) ELSE Math_max(w, Px(7))
    ELSE w

\* the segment the shared styling is looked up with: the next one in the
\* single-box path, the next one that is not blank in the word-wrap path
FollowingSegment(wordWrapped) ==
    IF wordWrapped THEN NextNonBlank(layout.segments, layout.i)
    ELSE IF layout.i < Len(layout.segments) THEN layout.i + 1 ELSE 0

SharesStylingWith(next) ==
    next # 0 /\ hasSharedParentStyling(CurrentSegment,
                                       layout.segments[IF next = 0 THEN layout.i ELSE next])

\* the x the last box of the segment is measured from: startX after a
\* wrap, the cursor x otherwise
LastBoxOrigin(after, measurement) ==
    IF Len(after.positioned) > Len(layout.positioned) + 1 THEN startX
    ELSE IF layout.currentX > startX
            /\ layout.currentX + measurement.width > layout.wrapWidth
    THEN startX
    ELSE layout.currentX

CursorAdvance(after, measurement, wordWrapped) ==
    /\ Len(after.positioned) > Len(layout.positioned)
    /\ after.currentX =
          LastBoxOrigin(after, measurement) + LastBoxOf(after).width
              + SpacingByContext(CurrentSegment,
                                 SharesStylingWith(FollowingSegment(wordWrapped)),
                                 wordWrapped,
                                 measureText(<<" ">>, CurrentSegment).width)

PreviousSegment == layout.segments[layout.i - 1]

PreviousBox == layout.positioned[Len(layout.positioned)]

\* a styled segment is about to be placed behind a styled tag-to-tag segment
\* with a space after it that shares no parent styling with it
AtTagToTagPair ==
    /\ AtPlacedSegment /\ layout.i > 1 /\ layout.positioned # <<>>
    /\ PreviousSegment.text # NEWLINE
    /\ PreviousSegment.hasSpaceAfter
    /\ PreviousSegment.spacingContext = "tag-to-tag"
    /\ ~isUnstyledSegment(PreviousSegment)
    /\ ~isUnstyledSegment(CurrentSegment)
    /\ ~hasSharedParentStyling(PreviousSegment, CurrentSegment)

\* the top of the line of the last box of the previous segment
PreviousLineTop(measurement) ==
    LineTopOf(PreviousBox,
              needsWordWrap(PreviousSegment, measurement, layout.wrapWidth),
              measurement)

\* the gap between the previous box and the box on its line, in the bounds
GapWithin(box, lineTop, least, most) ==
    lineTop = PreviousLineTop(measureText(PreviousSegment.text, PreviousSegment))
        => /\ box.x - (PreviousBox.x + PreviousBox.width) >= least
           /\ box.x - (PreviousBox.x + PreviousBox.width) <= most

GapOfPair(after, measurement, least, most) ==
    /\ Len(after.positioned) > Len(layout.positioned)
    /\ GapWithin(FirstBoxOf(after),
                 LineTopOf(FirstBoxOf(after), WordWrapsHere, measurement),
                 least, most)

\* C28: between two consecutive styled segments on one line, the first with
\* hasSpaceAfter and 'tag-to-tag' and sharing no parent styling with the
\* second, the gap between the first box's right edge and the next box's x
\* is at least 3 and at most 8 px, whatever the width of a space.
C28_TagToTagGapCapped ==
    AtTagToTagPair =>
        GapOfPair(PlaceStep(Cursor, layout.segments, layout.wrapWidth),
                  CurrentMeasurement, Px(3), Px(8))

\* C28, the lower bound alone: the gap is at least 7 px.
C28_TagToTagGapAtLeast ==
    AtTagToTagPair =>
        GapOfPair(PlaceStep(Cursor, layout.segments, layout.wrapWidth),
                  CurrentMeasurement, Px(7),
                  layout.wrapWidth + Px(20) * MaxListLevel)

\* ------------------------------------------------------------------------
\* Layout: the words of a wrapped segment
\* ------------------------------------------------------------------------

RECURSIVE DropSpaces(_)
\* the text without the spaces it begins with
DropSpaces(s) == IF s # <<>> /\ Head(s) = " " THEN DropSpaces(Tail(s)) ELSE s

RECURSIVE CollapseSpaces(_)
\* the text with every run of spaces replaced by one space
CollapseSpaces(s) ==
    IF s = <<>> THEN <<>>
    ELSE IF Head(s) = " " THEN <<" ">> \o CollapseSpaces(DropSpaces(s))
    ELSE << Head(s) >> \o CollapseSpaces(Tail(s))

\* the text without one space at its beginning and one at its end
StripSpace(s) ==
    LET a == IF s # <<>> /\ s[1] = " " THEN 2 ELSE 1
        b == IF Len(s) >= a /\ s[Len(s)] = " " THEN Len(s) - 1 ELSE Len(s)
    IN  SubSeq(s, a, b)

RECURSIVE JoinTexts(_)
\* the texts of the boxes joined with single spaces
JoinTexts(boxes) ==
    IF boxes = <<>> THEN <<>>
    ELSE IF Len(boxes) = 1 THEN boxes[1].text
    ELSE boxes[1].text \o <<" ">> \o JoinTexts(Tail(boxes))

\* C29: word-wrapping a segment loses and reorders nothing: the texts of
\* the boxes of the segment, joined in output order with single spaces,
\* equal the segment's text with runs of spaces collapsed, for every
\* segment text and every wrapWidth.
C29_WrapKeepsText ==
    (AtPlacedSegment /\ WordWrapsHere) =>
        JoinTexts(NewBoxes(PlaceStep(Cursor, layout.segments, layout.wrapWidth)))
            = CollapseSpaces(CurrentSegment.text)

\* C29 as it holds: the joined texts equal the segment's text with runs of
\* spaces collapsed and the spaces at its two ends dropped.
C29_WrapKeepsWords ==
    (AtPlacedSegment /\ WordWrapsHere) =>
        JoinTexts(NewBoxes(PlaceStep(Cursor, layout.segments, layout.wrapWidth)))
            = StripSpace(CollapseSpaces(CurrentSegment.text))

\* C29 witness: a text with a double space was wrapped into two boxes, and
\* a text with a space at each end into two boxes without them.
C29_Witness ==
    /\ layout.pc = "place" /\ layout.i = 3 /\ layout.wrapWidth = Px(40)
    /\ layout.segments[1].text = WORDS_GAP
    /\ layout.segments[2].text = WORDS_PADDED
    /\ Len(layout.positioned) = 4
    /\ layout.positioned[1].text = <<"a", "b">>
    /\ layout.positioned[2].text = <<"c", "d", "e", "f">>
    /\ layout.positioned[3].text = <<"a", "b">>
    /\ layout.positioned[4].text = <<"c", "d", "e", "f">>

\* ------------------------------------------------------------------------
\* Layout: boxes on one line
\* ------------------------------------------------------------------------

\* a segment is about to be placed behind the box of another segment
AtFollowingSegment ==
    /\ AtPlacedSegment /\ layout.i > 1 /\ layout.positioned # <<>>
    /\ PreviousSegment.text # NEWLINE

\* no box stands further right than this
FarRight == DEFAULT_WRAP_WIDTH + DEFAULT_WRAP_WIDTH

\* C30: boxes that layoutSegments places on the same line never overlap
\* horizontally: each box starts at or after the right edge (x + width) of
\* the box placed before it on that line, for every sequence of segments,
\* unstyled text followed directly by styled text and list-item segments
\* followed by non-list segments included.
C30_NoOverlap ==
    AtFollowingSegment =>
        GapOfPair(PlaceStep(Cursor, layout.segments, layout.wrapWidth),
                  CurrentMeasurement, 0, FarRight)

\* C30 behind a box that stands at the cursor itself, a styled segment that
\* is no list item: the next box on the line starts at or after its right
\* edge.
C30_NoOverlapBehindStyled ==
    (AtFollowingSegment /\ ~isUnstyledSegment(PreviousSegment)
                        /\ indentationX(PreviousSegment) = 0)
        => GapOfPair(PlaceStep(Cursor, layout.segments, layout.wrapWidth),
                     CurrentMeasurement, 0, FarRight)

====
